---- MODULE Spec2Model ----
(***************************************************************************)
(* Webhook-driven aggregation and dual-store synchronisation pipeline of   *)
(* desirelines: the aggregator and the BigQuery inserter cloud functions,  *)
(* the summary use cases they call, the warehouse adapter and the blob     *)
(* store.                                                                  *)
(*                                                                         *)
(* Floats are fixed point with three decimals (1.0 is 1000), so that the   *)
(* metre-to-mile conversion is a real computation.  A datetime is a record *)
(* [year, day, hour]; a date string keeps the year and the day only.       *)
(***************************************************************************)
EXTENDS Integers, Sequences, FiniteSets, TLC

VARIABLES
    \* ---- pure aggregation harness (SpecPure) ----
    pcat,        \* the activities offered to the pure operations, by id
    pdoc,        \* the summary document under the pure operations
    plast,       \* the last pure operation applied, with its outcome
    \* ---- the Strava adapters on their own (SpecStrava) ----
    tokens,      \* the StravaTokenSet the repositories are built with
    call,        \* the adapter call in flight or finished last
    \* ---- the calendar ----
    clock,       \* the date datetime.now() gives
    today_cache, \* the lru_cache of pacing_service.today()
    \* ---- the deployed pipeline (Spec) ----
    upstream,            \* Strava: activity id -> [exists, activity]
    activities_staging,  \* BigQuery table activities_staging, rows in insertion order
    activities,          \* BigQuery table activities
    deleted_activities,  \* BigQuery table deleted_activities
    summary_blob,        \* activities/{year}/summary_activities.json, by year
    distances_blob,      \* activities/{year}/distances.json, by year
    inv,                 \* the handler invocations in flight, by worker
    last,                \* what the last finished invocation returned or raised
    faults               \* outbound calls that have failed so far

avars == <<tokens, call>>

tvars == <<clock, today_cache>>

\* what the pipeline's handlers leave alone
pvars == <<pcat, pdoc, plast, avars, tvars>>

svars == <<upstream, activities_staging, activities, deleted_activities,
           summary_blob, distances_blob, inv, last, faults>>

vars == <<pcat, pdoc, plast, tokens, call, clock, today_cache, upstream,
          activities_staging,
          activities, deleted_activities, summary_blob, distances_blob, inv,
          last, faults>>

(***************************************************************************)
(* Bounds                                                                  *)
(***************************************************************************)
MaxPureIds == 2
DaysPerYear == 3
MaxStaged == 2
MaxFaults == 1
MaxTicks == 2

(***************************************************************************)
(* Domain: activities, dates, distances                                    *)
(***************************************************************************)
ActivityTypes == {"Ride", "VirtualRide", "Run"}

\* the tuple ("Ride", "VirtualRide") of the use cases
AllowedTypes == {"Ride", "VirtualRide"}

\* 1.0 in fixed point
One == [fp |-> 1000]

Fix(n) == n * One.fp

\* the significant bits of a float: the model's floats are scaled down from
\* the 53 bits of a Python float, the unit being the fixed-point 0.001
MantissaBits == 14

\* the spacing of the floats around x
RECURSIVE Ulp(_)
Ulp(x) == IF x < 2^MantissaBits THEN 1 ELSE 2 * Ulp(x \div 2)

\* the float nearest to x >= 0, ties to the even mantissa
RoundNearestEven(x) ==
    LET u == Ulp(x)
        q == x \div u
        r == x % u
    IN  IF 2 * r < u THEN q * u
        ELSE IF 2 * r > u THEN (q + 1) * u
        ELSE IF q % 2 = 0 THEN q * u ELSE (q + 1) * u

\* the result of a float operation: the exact result, rounded
float_round(x) == IF x < 0 THEN 0 - RoundNearestEven(0 - x) ELSE RoundNearestEven(x)

\* float.__add__ and float.__sub__
float_add(x, y) == float_round(x + y)

float_sub(x, y) == float_round(x - y)

\* MinimalStravaActivity.distance_miles: self.distance / 1000.0 * 0.62137
distance_miles(activity) ==
    float_round(((activity.distance \div 1000) * 62137) \div 100000)

\* MinimalStravaActivity.date_str: start_date_local.date().strftime("%Y-%m-%d")
date_str(activity) ==
    [year |-> activity.start_date_local.year, day |-> activity.start_date_local.day]

\* SummaryObject = dict[str, SummaryEntry]; the empty dict
EmptySummary == [d \in {} |-> [distance_miles |-> 0, activity_ids |-> <<>>]]

\* x in list
Contains(list, x) == \E i \in 1..Len(list) : list[i] = x

\* list.remove(x): drops the first occurrence of x
RECURSIVE ListRemove(_, _)
ListRemove(list, x) ==
    IF list = <<>> THEN <<>>
    ELSE IF Head(list) = x THEN Tail(list)
    ELSE <<Head(list)>> \o ListRemove(Tail(list), x)

\* del summary[key]
DictDelete(summary, key) == [d \in (DOMAIN summary) \ {key} |-> summary[d]]

\* summary[key] = entry, for a key not yet in the dict
DictInsert(summary, key, entry) ==
    [d \in (DOMAIN summary) \cup {key} |-> IF d = key THEN entry ELSE summary[d]]

(***************************************************************************)
(* AggregationEngine                                                       *)
(***************************************************************************)
\* the type filter of UpdateSummaryUseCase.run and DeleteSummaryUseCase.run
is_allowed_type(activity) == activity.type \in AllowedTypes

\* a merge that forgets the "already logged" check
update_summary_no_check(summary, activity) ==
    LET ds == date_str(activity) IN
    IF ds \in DOMAIN summary
    THEN [none |-> FALSE,
          summary |-> [summary EXCEPT ![ds] =
              [distance_miles |-> float_add(@.distance_miles, distance_miles(activity)),
               activity_ids |-> Append(@.activity_ids, activity.id)]]]
    ELSE [none |-> FALSE,
          summary |-> DictInsert(summary, ds,
              [distance_miles |-> distance_miles(activity),
               activity_ids |-> <<activity.id>>])]

\* a merge that lists the id and forgets its miles
update_summary_no_distance(summary, activity) ==
    LET ds == date_str(activity) IN
    IF ds \in DOMAIN summary
    THEN IF Contains(summary[ds].activity_ids, activity.id)
         THEN [none |-> TRUE, summary |-> summary]
         ELSE [none |-> FALSE,
               summary |-> [summary EXCEPT ![ds].activity_ids =
                               Append(@, activity.id)]]
    ELSE [none |-> FALSE,
          summary |-> DictInsert(summary, ds,
              [distance_miles |-> distance_miles(activity),
               activity_ids |-> <<activity.id>>])]

\* UpdateSummaryUseCase._update_summary: none is the None return
update_summary(summary, activity) ==
    LET ds == date_str(activity) IN
    IF ds \in DOMAIN summary
    THEN IF Contains(summary[ds].activity_ids, activity.id)
         THEN [none |-> TRUE, summary |-> summary]
         ELSE [none |-> FALSE,
               summary |-> [summary EXCEPT ![ds] =
                   [distance_miles |-> float_add(@.distance_miles, distance_miles(activity)),
                    activity_ids |-> Append(@.activity_ids, activity.id)]]]
    ELSE [none |-> FALSE,
          summary |-> DictInsert(summary, ds,
              [distance_miles |-> distance_miles(activity),
               activity_ids |-> <<activity.id>>])]

\* a removal that keeps the emptied day
remove_from_summary_keep_day(summary, activity) ==
    LET ds == date_str(activity) IN
    IF ds \notin DOMAIN summary
    THEN [raised |-> TRUE, summary |-> summary]
    ELSE IF ~Contains(summary[ds].activity_ids, activity.id)
    THEN [raised |-> TRUE, summary |-> summary]
    ELSE [raised |-> FALSE,
          summary |-> [summary EXCEPT ![ds] =
              [distance_miles |-> float_sub(@.distance_miles, distance_miles(activity)),
               activity_ids |-> ListRemove(@.activity_ids, activity.id)]]]

\* a removal that takes a missing id for done
remove_from_summary_lenient(summary, activity) ==
    LET ds == date_str(activity) IN
    IF ds \notin DOMAIN summary
    THEN [raised |-> TRUE, summary |-> summary]
    ELSE IF ~Contains(summary[ds].activity_ids, activity.id)
    THEN [raised |-> FALSE, summary |-> summary]
    ELSE LET ids == ListRemove(summary[ds].activity_ids, activity.id)
             dist == float_sub(summary[ds].distance_miles, distance_miles(activity))
         IN  IF ids = <<>>
             THEN [raised |-> FALSE, summary |-> DictDelete(summary, ds)]
             ELSE [raised |-> FALSE,
                   summary |-> [summary EXCEPT ![ds] =
                       [distance_miles |-> dist, activity_ids |-> ids]]]

\* a removal that drops the id and keeps its miles
remove_from_summary_no_subtract(summary, activity) ==
    LET ds == date_str(activity) IN
    IF ds \notin DOMAIN summary
    THEN [raised |-> TRUE, summary |-> summary]
    ELSE IF ~Contains(summary[ds].activity_ids, activity.id)
    THEN [raised |-> TRUE, summary |-> summary]
    ELSE LET ids == ListRemove(summary[ds].activity_ids, activity.id)
         IN  IF ids = <<>>
             THEN [raised |-> FALSE, summary |-> DictDelete(summary, ds)]
             ELSE [raised |-> FALSE,
                   summary |-> [summary EXCEPT ![ds].activity_ids = ids]]

\* DeleteSummaryUseCase._remove_from_summary: raised is ActivityNotFoundError
remove_from_summary(summary, activity) ==
    LET ds == date_str(activity) IN
    IF ds \notin DOMAIN summary
    THEN [raised |-> TRUE, summary |-> summary]
    ELSE IF ~Contains(summary[ds].activity_ids, activity.id)
    THEN [raised |-> TRUE, summary |-> summary]
    ELSE LET ids == ListRemove(summary[ds].activity_ids, activity.id)
             dist == float_sub(summary[ds].distance_miles, distance_miles(activity))
         IN  IF ids = <<>>
             THEN [raised |-> FALSE, summary |-> DictDelete(summary, ds)]
             ELSE [raised |-> FALSE,
                   summary |-> [summary EXCEPT ![ds] =
                       [distance_miles |-> dist, activity_ids |-> ids]]]

\* the loop of UpdateSummaryUseCase.run_batch over the activities read
RECURSIVE batch_summary(_, _)
batch_summary(summary, all_activities) ==
    IF all_activities = <<>> THEN summary
    ELSE LET temp == update_summary(summary, Head(all_activities))
         IN  batch_summary(IF temp.none THEN summary ELSE temp.summary,
                           Tail(all_activities))

\* UpdateSummaryUseCase.run after the fetch, in memory: the type filter, then
\* the merge; export says whether run goes on to calculate and export
run_update(summary, activity) ==
    IF ~is_allowed_type(activity)
    THEN [export |-> FALSE, raised |-> FALSE, summary |-> summary]
    ELSE LET updated_summary == update_summary(summary, activity)
         IN  IF updated_summary.none
             THEN [export |-> FALSE, raised |-> FALSE, summary |-> summary]
             ELSE [export |-> TRUE, raised |-> FALSE,
                   summary |-> updated_summary.summary]

\* DeleteSummaryUseCase.run after the metadata lookup, in memory: the type
\* filter, then the removal; raised is the ActivityNotFoundError of the removal
run_delete(summary, activity) ==
    IF ~is_allowed_type(activity)
    THEN [export |-> FALSE, raised |-> FALSE, summary |-> summary]
    ELSE LET updated_summary == remove_from_summary(summary, activity)
         IN  IF updated_summary.raised
             THEN [export |-> FALSE, raised |-> TRUE, summary |-> summary]
             ELSE [export |-> TRUE, raised |-> FALSE,
                   summary |-> updated_summary.summary]

(***************************************************************************)
(* SpecPure: the pure operations on one year's document                    *)
(***************************************************************************)
PureIds == 1..MaxPureIds

PureActivity(id, type, day) ==
    [id |-> id, type |-> type,
     start_date_local |-> [year |-> 1, day |-> day, hour |-> 7 + id],
     distance |-> Fix(10000 * id)]

PureActivities(id) ==
    {PureActivity(id, t, d) : t \in ActivityTypes, d \in 1..DaysPerYear}

NoOp ==
    [op |-> "none", id |-> 0, outcome |-> "none", before |-> EmptySummary,
     chart |-> <<>>]

\* merge_create: UpdateSummaryUseCase.run on the document in memory
PureMergeCreate(i) ==
    LET a == pcat[i]
        r == run_update(pdoc, a)
    IN  /\ pdoc' = r.summary
        /\ plast' = [op |-> "merge_create", id |-> i,
                     outcome |-> IF ~is_allowed_type(a) THEN "filtered"
                                 ELSE IF r.export THEN "updated" ELSE "noop",
                     before |-> pdoc, chart |-> <<>>]
        /\ UNCHANGED <<pcat, avars, tvars, svars>>

\* remove_delete: DeleteSummaryUseCase.run on the document in memory
PureRemoveDelete(i) ==
    LET a == pcat[i]
        r == run_delete(pdoc, a)
    IN  /\ pdoc' = r.summary
        /\ plast' = [op |-> "remove_delete", id |-> i,
                     outcome |-> IF ~is_allowed_type(a) THEN "filtered"
                                 ELSE IF r.raised THEN "raised" ELSE "removed",
                     before |-> pdoc, chart |-> <<>>]
        /\ UNCHANGED <<pcat, avars, tvars, svars>>

\* the activities of the year as read_activities_by_year returns them
RECURSIVE CatalogList(_)
CatalogList(n) == IF n = 0 THEN <<>> ELSE Append(CatalogList(n - 1), pcat[n])

\* run_batch: rebuild the year's document from all its activities
PureRunBatch ==
    /\ pdoc' = batch_summary(EmptySummary, CatalogList(MaxPureIds))
    /\ plast' = [op |-> "run_batch", id |-> 0, outcome |-> "updated",
                 before |-> pdoc, chart |-> <<>>]
    /\ UNCHANGED <<pcat, avars, tvars, svars>>

PureNext ==
    \/ \E i \in PureIds : PureMergeCreate(i)
    \/ \E i \in PureIds : PureRemoveDelete(i)
    \/ PureRunBatch

(***************************************************************************)
(* PacingCalculator                                                        *)
(***************************************************************************)
\* the calendar: last year, this year, next year
Years == {0, 1, 2}

\* the day the model starts on: the second day of year 1
FirstDay == [year |-> 1, day |-> 2]

\* today() has not been called in this instance
NoToday == [set |-> FALSE, value |-> [year |-> 0, day |-> 0]]

\* pacing_service.today(): datetime.now() at the first call of the
\* instance, the cached value from then on
today == IF today_cache.set THEN today_cache.value ELSE clock

\* the lru_cache after a call of today()
today_called == [set |-> TRUE, value |-> today]

\* utils.num_days_in_year
num_days_in_year(year) == DaysPerYear

\* utils.num_days_so_far: raised is the ValueError of a year still to come
num_days_so_far(year) ==
    IF year < clock.year THEN [raised |-> FALSE, days |-> num_days_in_year(year)]
    ELSE IF year > clock.year THEN [raised |-> TRUE, days |-> 0]
    ELSE [raised |-> FALSE, days |-> clock.day]

\* date > today().date()
DateAfterToday(year, day) ==
    year > today.year \/ (year = today.year /\ day > today.day)

\* PacingService._translate_summary_for_chart, from the given day of
\* date_range(year) on, with the cumulative sum so far
RECURSIVE translate_from(_, _, _, _)
translate_from(summary, year, day, cumulative_sum) ==
    IF day > num_days_in_year(year) \/ DateAfterToday(year, day) THEN <<>>
    ELSE LET ds == [year |-> year, day |-> day]
             c == IF ds \in DOMAIN summary
                  THEN float_add(cumulative_sum, summary[ds].distance_miles)
                  ELSE cumulative_sum
         IN  <<[x |-> ds, y |-> c]>> \o translate_from(summary, year, day + 1, c)

\* a translation that takes the day's miles for the sum so far
RECURSIVE translate_assigning_from(_, _, _, _)
translate_assigning_from(summary, year, day, cumulative_sum) ==
    IF day > num_days_in_year(year) \/ DateAfterToday(year, day) THEN <<>>
    ELSE LET ds == [year |-> year, day |-> day]
             c == IF ds \in DOMAIN summary
                  THEN summary[ds].distance_miles
                  ELSE cumulative_sum
         IN  <<[x |-> ds, y |-> c]>>
                 \o translate_assigning_from(summary, year, day + 1, c)

translate_summary_assigning(summary, year) ==
    translate_assigning_from(summary, year, 1, 0)

translate_summary_for_chart(summary, year) == translate_from(summary, year, 1, 0)

\* PacingService.calculate: the estimate divides by num_days_so_far, which
\* raises for a year still to come
calculate(summary, year) ==
    IF num_days_so_far(year).raised
    THEN [raised |-> TRUE, payload |-> [distance_traveled |-> <<>>]]
    ELSE [raised |-> FALSE,
          payload |-> [distance_traveled |-> translate_summary_for_chart(summary, year)]]

\* PacingService.calculate on the document of the pure operations
PureCalculate ==
    /\ LET c == calculate(pdoc, 1)
       IN  /\ plast' = [op |-> "calculate", id |-> 0,
                        outcome |-> IF c.raised THEN "raised" ELSE "charted",
                        before |-> pdoc,
                        chart |-> c.payload.distance_traveled]
           /\ today_cache' = IF c.raised THEN today_cache ELSE today_called
    /\ UNCHANGED <<pcat, pdoc, clock, avars, svars>>

(***************************************************************************)
(* SummaryStore                                                            *)
(***************************************************************************)
\* json.dumps(data) of a summary: one member per key, "date": {"distance_miles":
\* ..., "activity_ids": [...]}, listed here by date
RECURSIVE json_dumps(_)
json_dumps(summary) ==
    IF DOMAIN summary = {} THEN <<>>
    ELSE LET key == CHOOSE d \in DOMAIN summary :
                       \A e \in DOMAIN summary :
                           d.year * (DaysPerYear + 1) + d.day
                               <= e.year * (DaysPerYear + 1) + e.day
         IN  <<[name |-> key,
                distance_miles |-> summary[key].distance_miles,
                activity_ids |-> summary[key].activity_ids]>>
                 \o json_dumps(DictDelete(summary, key))

\* json.loads(text): the dict of the members, a later member of the same
\* name replacing an earlier one
RECURSIVE json_loads(_)
json_loads(text) ==
    IF text = <<>> THEN EmptySummary
    ELSE LET front == json_loads(SubSeq(text, 1, Len(text) - 1))
             member == text[Len(text)]
         IN  [d \in (DOMAIN front) \cup {member.name} |->
                 IF d = member.name
                 THEN [distance_miles |-> member.distance_miles,
                       activity_ids |-> member.activity_ids]
                 ELSE front[d]]

\* no blob of this name in the bucket
NoSummaryBlob == [exists |-> FALSE, body |-> <<>>]

NoDistancesBlob == [exists |-> FALSE, body |-> [distance_traveled |-> <<>>]]

\* a read whose blob name leaves out the year
read_activity_summary_any_year(blobs, year) ==
    IF blobs[clock.year].exists
    THEN json_loads(blobs[clock.year].body) ELSE EmptySummary

\* SummariesRepo.read_activity_summary_by_year: NotFound reads as {}
read_activity_summary_by_year(blobs, year) ==
    IF blobs[year].exists THEN json_loads(blobs[year].body) ELSE EmptySummary

\* a write that keeps the days of the stored document the new one lacks
summaries_update_merging(blobs, summary, year) ==
    LET stored == read_activity_summary_by_year(blobs, year)
    IN  [blobs EXCEPT ![year] =
            [exists |-> TRUE,
             body |-> json_dumps([d \in (DOMAIN stored) \cup (DOMAIN summary) |->
                          IF d \in DOMAIN summary THEN summary[d] ELSE stored[d]])]]

\* an update whose blob name takes the current year
summaries_update_current_year(blobs, summary, year) ==
    [blobs EXCEPT ![clock.year] = [exists |-> TRUE, body |-> json_dumps(summary)]]

\* SummariesRepo.update: the whole object is replaced
summaries_update(blobs, summary, year) ==
    [blobs EXCEPT ![year] = [exists |-> TRUE, body |-> json_dumps(summary)]]

\* DistancesRepo.update
distances_update(blobs, distances, year) ==
    [blobs EXCEPT ![year] = [exists |-> TRUE, body |-> distances]]

(***************************************************************************)
(* Strava and the warehouse                                                *)
(***************************************************************************)
ActivityIds == {1, 2}

\* a DetailedStravaActivity: of its fields the four the aggregation uses,
\* and description for the fields the MERGE statement does not name
Activity(id, type, year, day, hour, metres) ==
    [id |-> id, type |-> type,
     start_date_local |-> [year |-> year, day |-> day, hour |-> hour],
     distance |-> Fix(metres),
     description |-> IF id = 0 THEN "none" ELSE "notes"]

\* a column no statement has given a value
Null == "NULL"

\* a ride, and a second activity that is a virtual ride of the same day, a
\* run, a ride of last year or a ride dated next year
SecondActivities ==
    {Activity(2, "VirtualRide", 1, 1, 17, 20000),
     Activity(2, "Run", 1, 2, 9, 5000),
     Activity(2, "Ride", 0, 3, 9, 5000),
     Activity(2, "Ride", 2, 1, 9, 5000)}

Upstreams ==
    {[i \in ActivityIds |->
        [exists |-> TRUE,
         activity |-> IF i = 1 THEN Activity(1, "Ride", 1, 1, 8, 10000)
                      ELSE a2]] : a2 \in SecondActivities}

NoActivity == Activity(0, "none", 0, 0, 0, 0)

\* the rows of a table with the given id, as a set of positions
RowsWithId(table, id) == {i \in 1..Len(table) : table[i].id = id}

\* ORDER BY start_date DESC
DateKey(dt) == (dt.year * (DaysPerYear + 1) + dt.day) * 24 + dt.hour

\* the source of the MERGE: among the staged rows of the id, those that can
\* get row_num = 1
merge_sources(staging, activity_id) ==
    {staging[i] : i \in {j \in RowsWithId(staging, activity_id) :
        \A k \in RowsWithId(staging, activity_id) :
            DateKey(staging[k].start_date_local) <= DateKey(staging[j].start_date_local)}}

\* a merge that inserts without matching on the id
merge_always_insert(target, source) == Append(target, source)

\* MERGE ... ON target.id = source.id WHEN MATCHED THEN UPDATE SET the
\* columns named WHEN NOT MATCHED THEN INSERT the columns named: a column
\* the statement does not name keeps its value in a matched row and is
\* NULL in an inserted one
merge(target, source) ==
    IF RowsWithId(target, source.id) # {}
    THEN [i \in 1..Len(target) |->
             IF target[i].id = source.id
             THEN [target[i] EXCEPT !.type = source.type,
                                    !.start_date_local = source.start_date_local,
                                    !.distance = source.distance]
             ELSE target[i]]
    ELSE Append(target, [source EXCEPT !.description = Null])

\* SELECT ... FROM table WHERE id = activity_id, in table order
RECURSIVE select_by_id(_, _)
select_by_id(table, activity_id) ==
    IF table = <<>> THEN <<>>
    ELSE IF Head(table).id = activity_id
    THEN <<Head(table)>> \o select_by_id(Tail(table), activity_id)
    ELSE select_by_id(Tail(table), activity_id)

\* DELETE FROM table WHERE id = activity_id
RECURSIVE delete_by_id(_, _)
delete_by_id(table, activity_id) ==
    IF table = <<>> THEN <<>>
    ELSE IF Head(table).id = activity_id THEN delete_by_id(Tail(table), activity_id)
    ELSE <<Head(table)>> \o delete_by_id(Tail(table), activity_id)

\* ActivitiesRepo.read_activity_metadata on a row of the UNION ALL: the
\* distance is converted to miles and handed over as the field distance
read_activity_metadata(row) ==
    [id |-> row.id, type |-> row.type,
     start_date_local |-> row.start_date_local,
     distance |-> ((row.distance \div 1000) * 62137) \div 100000]

\* MinimalStravaActivitiesRepo.read_activity_by_id on a 2xx response
read_activity_by_id(resp) ==
    [id |-> resp.id, type |-> resp.type,
     start_date_local |-> resp.start_date_local, distance |-> resp.distance]

(***************************************************************************)
(* The Strava adapters: StravaTokenRepo and the two activity repositories  *)
(***************************************************************************)
\* StravaApiConfig.token_retry_attempts
token_retry_attempts == 2

\* StravaApiConfig.activity_retry_attempts
activity_retry_attempts == 3

\* the status codes Strava answers with
StatusCodes == {200, 401, 403, 404, 500}

\* the access tokens the token endpoint hands out
AccessTokens == {"baz", "qux"}

\* the credential sets of the configuration
ConfigTokens ==
    {[client_id |-> c, client_secret |-> "secret", access_token |-> "foo",
      refresh_token |-> r] : c \in {1, 2}, r \in {"bar"}}

NoTokens ==
    [client_id |-> 0, client_secret |-> "none", access_token |-> "none",
     refresh_token |-> "none"]

\* a requests.Response, or no response at all (a timeout, a refused
\* connection) when failed is set
Response(status_code, access_token, activity) ==
    [failed |-> FALSE, status_code |-> status_code,
     access_token |-> access_token, activity |-> activity]

NoResponse ==
    [failed |-> TRUE, status_code |-> 0, access_token |-> "none",
     activity |-> NoActivity]

\* Response.ok
ok(resp) == resp.status_code < 400

\* what the token endpoint can answer to a refresh
TokenResponses ==
    {Response(200, a, NoActivity) : a \in AccessTokens}
        \cup {Response(c, "none", NoActivity) : c \in StatusCodes \ {200, 404}}
        \cup {NoResponse}

\* what GET /activities/{id} can answer: the activity when Strava has it,
\* 404 when it has not, or a failure
ActivityResponses(id) ==
    (IF upstream[id].exists
     THEN {Response(200, "none", upstream[id].activity)}
     ELSE {Response(404, "none", NoActivity)})
        \cup {Response(c, "none", NoActivity) : c \in StatusCodes \ {200, 404}}
        \cup {NoResponse}

\* retry_on_failure: the wrapper tries again after a request that got no
\* response or a 5xx, as long as attempts are left
retry_on_failure(attempts, max_attempts, resp) ==
    /\ attempts < max_attempts
    /\ (resp.failed \/ resp.status_code >= 500)

\* the outcome of an adapter call: a return value or an exception
Returned(new_tokens, activity) ==
    [outcome |-> "returned", error |-> "none", tokens |-> new_tokens,
     activity |-> activity]

Raised(error) ==
    [outcome |-> "raised", error |-> error, tokens |-> NoTokens,
     activity |-> NoActivity]

\* a refresh that takes every failure for a credential failure
refresh_all_fatal(old_tokens, resp) ==
    IF resp.failed THEN Raised("RequestException")
    ELSE IF ~ok(resp) THEN Raised("StravaTokenError")
    ELSE Returned([client_id |-> old_tokens.client_id,
                   client_secret |-> old_tokens.client_secret,
                   access_token |-> resp.access_token,
                   refresh_token |-> old_tokens.refresh_token], NoActivity)

\* StravaTokenRepo.refresh, from resp = _refresh() on
refresh(old_tokens, resp) ==
    IF resp.failed THEN Raised("RequestException")
    ELSE IF ~ok(resp)
    THEN IF resp.status_code = 401
         THEN Raised("StravaTokenError")
         ELSE Raised("StravaApiError")
    ELSE Returned([client_id |-> old_tokens.client_id,
                   client_secret |-> old_tokens.client_secret,
                   access_token |-> resp.access_token,
                   refresh_token |-> old_tokens.refresh_token], NoActivity)

\* DetailedStravaActivitiesRepo.read_activity_by_id, from resp = _fetch() on
detailed_read_activity_by_id(resp) ==
    IF resp.failed THEN Raised("RequestException")
    ELSE IF ~ok(resp)
    THEN IF resp.status_code = 404 THEN Raised("ActivityNotFoundError")
         ELSE IF resp.status_code = 401 THEN Raised("StravaTokenError")
         ELSE Raised("StravaApiError")
    ELSE Returned(NoTokens, resp.activity)

\* MinimalStravaActivitiesRepo.read_activity_by_id, from resp = _fetch() on:
\* every failure other than the 404 goes to resp.raise_for_status()
minimal_read_activity_by_id(resp) ==
    IF resp.failed THEN Raised("RequestException")
    ELSE IF ~ok(resp)
    THEN IF resp.status_code = 404 THEN Raised("ActivityNotFoundError")
         ELSE Raised("HTTPError")
    ELSE Returned(NoTokens, read_activity_by_id(resp.activity))

AdapterOps == {"refresh", "detailed", "minimal"}

NoCall ==
    [op |-> "none", id |-> 0, attempts |-> 0, resp |-> NoResponse,
     outcome |-> "none", error |-> "none", tokens |-> NoTokens,
     activity |-> NoActivity]

\* the attempts the configuration gives the call
max_attempts(op) ==
    IF op = "refresh" THEN token_retry_attempts ELSE activity_retry_attempts

\* a caller starts refresh() or read_activity_by_id(id)
StravaCall(op, id) ==
    /\ call.outcome # "pending"
    /\ op = "refresh" => id = 0
    /\ op # "refresh" => id \in ActivityIds
    /\ call' = [NoCall EXCEPT !.op = op, !.id = id, !.outcome = "pending"]
    /\ UNCHANGED <<tokens, pcat, pdoc, plast, tvars, svars>>

\* the wrapped _refresh() or _fetch() sends one request
StravaRequest ==
    /\ call.outcome = "pending"
    /\ \/ call.attempts = 0
       \/ retry_on_failure(call.attempts, max_attempts(call.op), call.resp)
    /\ \E resp \in IF call.op = "refresh" THEN TokenResponses
                   ELSE ActivityResponses(call.id) :
          call' = [call EXCEPT !.attempts = @ + 1, !.resp = resp]
    /\ UNCHANGED <<tokens, pcat, pdoc, plast, tvars, svars>>

\* the wrapper hands over the last response and the method returns or
\* raises; the caller builds its repositories with the refreshed token set
StravaReturn ==
    /\ call.outcome = "pending"
    /\ call.attempts > 0
    /\ ~retry_on_failure(call.attempts, max_attempts(call.op), call.resp)
    /\ LET r == IF call.op = "refresh" THEN refresh(tokens, call.resp)
                ELSE IF call.op = "detailed"
                THEN detailed_read_activity_by_id(call.resp)
                ELSE minimal_read_activity_by_id(call.resp)
       IN  /\ call' = [call EXCEPT !.outcome = r.outcome, !.error = r.error,
                                   !.tokens = r.tokens, !.activity = r.activity]
           /\ tokens' = IF call.op = "refresh" /\ r.outcome = "returned"
                        THEN r.tokens ELSE tokens
    /\ UNCHANGED <<pcat, pdoc, plast, tvars, svars>>

(***************************************************************************)
(* EnvelopeCodec: the CloudEvent of a Pub/Sub push and its decoding        *)
(***************************************************************************)
\* validate_updates_size: len(str(v)) > 2000
MaxUpdatesChars == 2000

Payload(aspect_type, object_id) ==
    [aspect_type |-> aspect_type, object_id |-> object_id,
     object_type |-> "activity", has_fields |-> TRUE, updates_chars |-> 2]

\* event.data is a dict with message.data the base64 of a JSON object
Envelope(aspect_type, object_id) ==
    [data |-> "dict", has_message |-> TRUE, has_data |-> TRUE,
     encoding |-> "json_object", payload |-> Payload(aspect_type, object_id)]

WellFormedEnvelopes ==
    {Envelope(a, i) : a \in {"create", "update", "delete"}, i \in ActivityIds}

\* each departs from a well-formed create event in one place
MalformedEnvelopes ==
    LET e == Envelope("create", 1) IN
    {[e EXCEPT !.data = "missing"],
     [e EXCEPT !.data = "not_dict"],
     [e EXCEPT !.has_message = FALSE],
     [e EXCEPT !.has_data = FALSE],
     [e EXCEPT !.encoding = "bad_base64"],
     [e EXCEPT !.encoding = "bad_utf8"],
     [e EXCEPT !.encoding = "bad_json"],
     [e EXCEPT !.encoding = "json_array"],
     [e EXCEPT !.payload.has_fields = FALSE],
     [e EXCEPT !.payload.aspect_type = "archive"],
     [e EXCEPT !.payload.object_type = "athlete"],
     [e EXCEPT !.payload.updates_chars = MaxUpdatesChars + 1]}

\* validate_cloud_event: TRUE when it raises CloudEventValidationError
validate_cloud_event(event) ==
    \/ event.data = "missing"
    \/ event.data = "not_dict"
    \/ ~event.has_message
    \/ ~event.has_data

\* safe_decode_message: TRUE when it raises MessageDecodeError
safe_decode_message(event) ==
    event.encoding \in {"bad_base64", "bad_utf8", "bad_json"}

\* WebhookRequest(**event_data): TRUE when pydantic raises ValidationError
WebhookRequest(payload) ==
    \/ ~payload.has_fields
    \/ payload.aspect_type \notin {"create", "update", "delete"}
    \/ payload.object_type # "activity"
    \/ payload.updates_chars > MaxUpdatesChars

\* main up to the routing on aspect_type, the same in both functions
main_decode(event) ==
    IF validate_cloud_event(event)
    THEN [status |-> "raised", detail |-> "CloudEventValidationError"]
    ELSE IF safe_decode_message(event)
    THEN [status |-> "failed", detail |-> "message_decode_failed"]
    ELSE IF event.encoding # "json_object"
    THEN [status |-> "raised", detail |-> "TypeError"]
    ELSE IF WebhookRequest(event.payload)
    THEN [status |-> "failed", detail |-> "validation_failed"]
    ELSE [status |-> "ok", detail |-> event.payload.aspect_type]

(***************************************************************************)
(* Orchestrator: one handler invocation at a time, call by call            *)
(***************************************************************************)
Workers == {1}

Functions == {"aggregator", "bq_inserter"}

Idle ==
    [fn |-> "none", aspect |-> "none", object_id |-> 0, pc |-> "idle",
     activity |-> NoActivity, summary |-> EmptySummary,
     payload |-> [distance_traveled |-> <<>>],
     dup |-> FALSE, partial |-> FALSE, present |-> "unread", wrote |-> 0]

NoResult ==
    [fn |-> "none", aspect |-> "none", object_id |-> 0, status |-> "none",
     detail |-> "none", cause |-> "none", type |-> "none",
     dup |-> FALSE, partial |-> FALSE, present |-> "unread", wrote |-> 0,
     malformed |-> FALSE]

AllIdle == \A w \in Workers : inv[w].pc = "idle"

\* the invocation of worker w ends: it returns a dict (processed, skipped,
\* failed) or raises, and the worker is free again
Finish(w, status, detail, cause, type, present, wrote) ==
    /\ inv' = [inv EXCEPT ![w] = Idle]
    /\ last' = [fn |-> inv[w].fn, aspect |-> inv[w].aspect,
                object_id |-> inv[w].object_id, status |-> status,
                detail |-> detail, cause |-> cause, type |-> type,
                dup |-> inv[w].dup, partial |-> inv[w].partial,
                present |-> present,
                wrote |-> wrote, malformed |-> FALSE]

\* the event is the one the function has just handled and acknowledged
Redelivery(fn, aspect, object_id) ==
    /\ last.fn = fn /\ last.aspect = aspect /\ last.object_id = object_id
    /\ last.status \in {"processed", "skipped"}

\* the event is the one whose handler has just raised between the two
\* writes of the export: Pub/Sub delivers it again
PartialExport(fn, aspect, object_id) ==
    /\ last.fn = fn /\ last.aspect = aspect /\ last.object_id = object_id
    /\ last.status = "raised" /\ last.wrote = 1

\* an outbound call fails: a timeout, a 5xx, a 401
CanFail == faults < MaxFaults


Stores == <<upstream, activities_staging, activities, deleted_activities,
            summary_blob, distances_blob>>

Warehouse == <<activities_staging, activities, deleted_activities>>

Blobs == <<summary_blob, distances_blob>>

\* a malformed envelope: main returns the "failed" dict or raises
DeliverMalformed(fn, event) ==
    /\ AllIdle
    /\ main_decode(event).status # "ok"
    /\ last' = [NoResult EXCEPT !.fn = fn, !.status = main_decode(event).status,
                                !.detail = main_decode(event).detail,
                                !.malformed = TRUE]
    /\ UNCHANGED <<Stores, inv, faults, pvars>>

\* an update event that is handed on like a create
DeliverUpdateRefreshes(fn, event) ==
    /\ AllIdle
    /\ main_decode(event).status = "ok"
    /\ main_decode(event).detail = "update"
    /\ inv' = [inv EXCEPT ![1] =
                  [Idle EXCEPT !.fn = fn, !.aspect = "update",
                               !.object_id = event.payload.object_id,
                               !.pc = IF fn = "aggregator" THEN "fetch" ELSE "refresh"]]
    /\ last' = NoResult
    /\ UNCHANGED <<Stores, faults, pvars>>

\* an update event: both functions skip it
DeliverUpdate(fn, event) ==
    /\ AllIdle
    /\ main_decode(event).status = "ok"
    /\ main_decode(event).detail = "update"
    /\ last' = [NoResult EXCEPT !.fn = fn, !.aspect = "update",
                                !.object_id = event.payload.object_id,
                                !.status = "skipped",
                                !.detail = IF fn = "aggregator" THEN "none" ELSE "update"]
    /\ UNCHANGED <<Stores, inv, faults, pvars>>

\* a create event reaches a function; the inserter stages a row per delivery
DeliverCreate(w, fn, event) ==
    /\ AllIdle
    /\ main_decode(event).status = "ok"
    /\ main_decode(event).detail = "create"
    /\ fn = "bq_inserter" => Len(activities_staging) < MaxStaged
    /\ inv' = [inv EXCEPT ![w] =
                  [Idle EXCEPT !.fn = fn, !.aspect = "create",
                               !.object_id = event.payload.object_id,
                               !.pc = IF fn = "aggregator" THEN "fetch" ELSE "refresh",
                               !.dup = Redelivery(fn, "create",
                                                  event.payload.object_id),
                               !.partial = PartialExport(fn, "create",
                                               event.payload.object_id)]]
    /\ last' = NoResult
    /\ UNCHANGED <<Stores, faults, pvars>>

\* a delete event that the aggregator handles like a create, by a fetch
DeliverDeleteFetches(w, fn, event) ==
    /\ AllIdle
    /\ main_decode(event).status = "ok"
    /\ main_decode(event).detail = "delete"
    /\ ~upstream[event.payload.object_id].exists
    /\ inv' = [inv EXCEPT ![w] =
                  [Idle EXCEPT !.fn = fn, !.aspect = "delete",
                               !.object_id = event.payload.object_id,
                               !.pc = IF fn = "aggregator" THEN "fetch" ELSE "archive",
                               !.dup = Redelivery(fn, "delete",
                                                  event.payload.object_id)]]
    /\ last' = NoResult
    /\ UNCHANGED <<Stores, faults, pvars>>

\* a delete event reaches a function: Strava sends it once the activity is gone
DeliverDelete(w, fn, event) ==
    /\ AllIdle
    /\ main_decode(event).status = "ok"
    /\ main_decode(event).detail = "delete"
    /\ ~upstream[event.payload.object_id].exists
    /\ inv' = [inv EXCEPT ![w] =
                  [Idle EXCEPT !.fn = fn, !.aspect = "delete",
                               !.object_id = event.payload.object_id,
                               !.pc = IF fn = "aggregator" THEN "lookup" ELSE "archive",
                               !.dup = Redelivery(fn, "delete",
                                                  event.payload.object_id),
                               !.partial = PartialExport(fn, "delete",
                                               event.payload.object_id)]]
    /\ last' = NoResult
    /\ UNCHANGED <<Stores, faults, pvars>>

\* the days from the model's first day to the given date
DaysElapsed(date) ==
    (date.year - FirstDay.year) * DaysPerYear + date.day - FirstDay.day

\* midnight: datetime.now() moves on to the next day
Tick ==
    /\ DaysElapsed(clock) < MaxTicks
    /\ clock' = IF clock.day < num_days_in_year(clock.year)
                THEN [clock EXCEPT !.day = @ + 1]
                ELSE [year |-> clock.year + 1, day |-> 1]
    /\ UNCHANGED <<today_cache, pcat, pdoc, plast, avars, svars>>

\* the platform replaces the idle function instance: a new process, with
\* nothing cached
ColdStart ==
    /\ AllIdle
    /\ today_cache.set
    /\ today_cache' = NoToday
    /\ UNCHANGED <<clock, pcat, pdoc, plast, avars, svars>>

\* the athlete deletes the activity on Strava
UpstreamDelete(id) ==
    /\ upstream[id].exists
    /\ upstream' = [upstream EXCEPT ![id].exists = FALSE]
    /\ UNCHANGED <<Warehouse, Blobs, inv, last, faults, pvars>>

\* the activities as Strava first has them
OriginalActivities == {u[i].activity : u \in Upstreams, i \in ActivityIds}

\* what an edit on Strava can make of an activity: another distance, or an
\* earlier start
Edits(activity) ==
    {[activity EXCEPT !.distance = @ + Fix(1000)],
     [activity EXCEPT !.start_date_local.hour = @ - 1],
     [activity EXCEPT !.description = "new notes"]}

\* the athlete edits the activity on Strava, once per activity
UpstreamEdit(id) ==
    /\ upstream[id].exists
    /\ upstream[id].activity \in OriginalActivities
    /\ \E edited \in Edits(upstream[id].activity) :
          upstream' = [upstream EXCEPT ![id].activity = edited]
    /\ UNCHANGED <<Warehouse, Blobs, inv, last, faults, pvars>>

\* the athlete moves an activity to the next day on Strava; the update
\* event this sends is skipped by both functions
UpstreamMove(id) ==
    /\ upstream[id].exists
    /\ upstream[id].activity \in OriginalActivities
    /\ upstream[id].activity.start_date_local.day < DaysPerYear
    /\ upstream' = [upstream EXCEPT ![id].activity.start_date_local.day = @ + 1]
    /\ UNCHANGED <<Warehouse, Blobs, inv, last, faults, pvars>>

(***************************************************************************)
(* activity_aggregator.main: the create and the delete branch              *)
(***************************************************************************)
\* the messages of the ActivityNotFoundError raised on the delete path
MsgNotInBigQuery ==
    "Activity {id} not found in BigQuery (checked both activities and deleted_activities tables)"

MsgDateNotInSummary == "Activity {id} not found in summary for date {date}"

MsgIdNotInSummary == "Activity {id} not in summary for date {date}"

\* the message _remove_from_summary raises with
remove_error_message(summary, activity) ==
    IF date_str(activity) \notin DOMAIN summary
    THEN MsgDateNotInSummary ELSE MsgIdNotInSummary

\* a handler that finds "BigQuery" in no message
MentionsBigQueryNever(error_message) == FALSE

\* "BigQuery" in error_message
MentionsBigQuery(error_message) == error_message \in {MsgNotInBigQuery}

\* whether the id is recorded on the activity's day of the document read
Present(summary, activity) ==
    IF /\ date_str(activity) \in DOMAIN summary
       /\ Contains(summary[date_str(activity)].activity_ids, activity.id)
    THEN "yes" ELSE "no"

\* a fetch whose handler lets the 404 through
AggFetchRaisesOn404(w) ==
    /\ inv[w].fn = "aggregator" /\ inv[w].pc = "fetch"
    /\ IF upstream[inv[w].object_id].exists
       THEN /\ inv' = [inv EXCEPT ![w].pc = "read",
                          ![w].activity = read_activity_by_id(
                                              upstream[inv[w].object_id].activity)]
            /\ UNCHANGED last
       ELSE Finish(w, "raised", "ActivityNotFoundError", "404", "none", "unread", 0)
    /\ UNCHANGED <<Stores, faults, pvars>>

\* UpdateSummaryUseCase.run: read_activity_by_id, then the type filter
AggFetch(w) ==
    /\ inv[w].fn = "aggregator" /\ inv[w].pc = "fetch"
    /\ \/ /\ upstream[inv[w].object_id].exists
          /\ LET activity == read_activity_by_id(upstream[inv[w].object_id].activity)
             IN  IF ~is_allowed_type(activity)
                 THEN Finish(w, "processed", "created", "none", activity.type,
                             "unread", 0)
                 ELSE /\ inv' = [inv EXCEPT ![w].pc = "read",
                                            ![w].activity = activity]
                      /\ UNCHANGED last
          /\ UNCHANGED faults
       \/ /\ ~upstream[inv[w].object_id].exists
          /\ Finish(w, "skipped", "activity_not_found", "404", "none", "unread", 0)
          /\ UNCHANGED faults
       \/ /\ CanFail
          /\ \E code \in {"401", "500"} :
                Finish(w, "raised", "HTTPError", code, "none", "unread", 0)
          /\ faults' = faults + 1
    /\ UNCHANGED <<Stores, pvars>>

\* DeleteSummaryUseCase.run: read_activity_metadata (UNION ALL of the two
\* tables, LIMIT 1), then the type filter
AggLookup(w) ==
    /\ inv[w].fn = "aggregator" /\ inv[w].pc = "lookup"
    /\ LET rows == select_by_id(activities, inv[w].object_id)
                   \o select_by_id(deleted_activities, inv[w].object_id)
       IN  \/ /\ rows # <<>>
              /\ \E k \in 1..Len(rows) :
                    LET activity == read_activity_metadata(rows[k])
                        present == Present(read_activity_summary_by_year(
                                       summary_blob, activity.start_date_local.year),
                                       activity)
                    IN  IF ~is_allowed_type(activity)
                        THEN Finish(w, "processed", "deleted", "none",
                                    activity.type, present, 0)
                        ELSE /\ inv' = [inv EXCEPT ![w].pc = "read",
                                                   ![w].activity = activity,
                                                   ![w].present = present]
                             /\ UNCHANGED last
              /\ UNCHANGED faults
           \/ /\ rows = <<>>
              /\ IF MentionsBigQuery(MsgNotInBigQuery)
                 THEN Finish(w, "raised", "ActivityNotFoundError",
                             "activity_not_found_in_bigquery", "none",
                             "not_in_warehouse", 0)
                 ELSE Finish(w, "skipped", "activity_not_in_summary",
                             "activity_not_in_summary", "none",
                             "not_in_warehouse", 0)
              /\ UNCHANGED faults
           \/ /\ CanFail
              /\ Finish(w, "raised", "BigQueryError", "500", "none", "unread", 0)
              /\ faults' = faults + 1
    /\ UNCHANGED <<Stores, pvars>>

\* both use cases: read the year's summary, merge or remove in memory,
\* recompute the timeseries
AggRead(w) ==
    /\ inv[w].fn = "aggregator" /\ inv[w].pc = "read"
    /\ LET activity == inv[w].activity
           year == activity.start_date_local.year
           summary == read_activity_summary_by_year(summary_blob, year)
           present == Present(summary, activity)
       IN  \/ /\ inv[w].aspect = "create"
              /\ LET updated_summary == update_summary(summary, activity)
                     c == calculate(updated_summary.summary, year)
                 IN  IF updated_summary.none
                     THEN Finish(w, "processed", "created", "none",
                                 activity.type, present, 0)
                     ELSE IF c.raised
                     THEN Finish(w, "raised", "ValueError", "calculate",
                                 activity.type, present, 0)
                     ELSE /\ inv' = [inv EXCEPT ![w].pc = "write_summary",
                                                ![w].summary = updated_summary.summary,
                                                ![w].payload = c.payload,
                                                ![w].present = present]
                          /\ UNCHANGED last
              /\ UNCHANGED faults
           \/ /\ inv[w].aspect = "delete"
              /\ LET updated_summary == remove_from_summary(summary, activity)
                     c == calculate(updated_summary.summary, year)
                 IN  IF updated_summary.raised
                     THEN IF MentionsBigQuery(remove_error_message(summary, activity))
                          THEN Finish(w, "raised", "ActivityNotFoundError",
                                      "activity_not_found_in_bigquery",
                                      activity.type, present, 0)
                          ELSE Finish(w, "skipped", "activity_not_in_summary",
                                      "activity_not_in_summary",
                                      activity.type, present, 0)
                     ELSE IF c.raised
                     THEN Finish(w, "raised", "ValueError", "calculate",
                                 activity.type, present, 0)
                     ELSE /\ inv' = [inv EXCEPT ![w].pc = "write_summary",
                                                ![w].summary = updated_summary.summary,
                                                ![w].payload = c.payload,
                                                ![w].present = present]
                          /\ UNCHANGED last
              /\ UNCHANGED faults
           \/ /\ CanFail
              /\ Finish(w, "raised", "StorageError", "500", activity.type,
                        inv[w].present, 0)
              /\ faults' = faults + 1
    /\ today_cache' = IF inv'[w].pc = "write_summary"
                      THEN today_called ELSE today_cache
    /\ UNCHANGED <<Stores, pcat, pdoc, plast, avars, clock>>

\* ExportService.export, first call: self._write_summary().update(summary, year)
AggWriteSummary(w) ==
    /\ inv[w].fn = "aggregator" /\ inv[w].pc = "write_summary"
    /\ \/ /\ summary_blob' = summaries_update(summary_blob, inv[w].summary,
                                 inv[w].activity.start_date_local.year)
          /\ inv' = [inv EXCEPT ![w].pc = "write_distances", ![w].wrote = 1]
          /\ UNCHANGED <<last, faults>>
       \/ /\ CanFail
          /\ Finish(w, "raised", "StorageError", "500", inv[w].activity.type,
                    inv[w].present, 0)
          /\ faults' = faults + 1
          /\ UNCHANGED summary_blob
    /\ UNCHANGED <<upstream, Warehouse, distances_blob, pvars>>

\* ExportService.export, second call: self._write_distances().update(...),
\* and main returns "processed"
AggWriteDistances(w) ==
    /\ inv[w].fn = "aggregator" /\ inv[w].pc = "write_distances"
    /\ \/ /\ distances_blob' = distances_update(distances_blob, inv[w].payload,
                                   inv[w].activity.start_date_local.year)
          /\ Finish(w, "processed",
                    IF inv[w].aspect = "create" THEN "created" ELSE "deleted",
                    "none", inv[w].activity.type, inv[w].present, 2)
          /\ UNCHANGED faults
       \/ /\ CanFail
          /\ Finish(w, "raised", "StorageError", "500", inv[w].activity.type,
                    inv[w].present, 1)
          /\ faults' = faults + 1
          /\ UNCHANGED distances_blob
    /\ UNCHANGED <<upstream, Warehouse, summary_blob, pvars>>

(***************************************************************************)
(* activity_bq_inserter.main: the create and the delete branch             *)
(***************************************************************************)
\* make_sync_service(): SyncService.__init__ refreshes the token; a 401
\* becomes a StravaTokenError, any other failure a StravaApiError
InsRefresh(w) ==
    /\ inv[w].fn = "bq_inserter" /\ inv[w].pc = "refresh"
    /\ \/ /\ inv' = [inv EXCEPT ![w].pc = "fetch"]
          /\ UNCHANGED <<last, faults>>
       \/ /\ CanFail
          /\ \/ Finish(w, "raised", "StravaTokenError", "401", "none", "unread", 0)
             \/ Finish(w, "raised", "StravaApiError", "500", "none", "unread", 0)
          /\ faults' = faults + 1
    /\ UNCHANGED <<Stores, pvars>>

\* SyncService.run: read_activity_by_id of the detailed activity
InsFetch(w) ==
    /\ inv[w].fn = "bq_inserter" /\ inv[w].pc = "fetch"
    /\ \/ /\ upstream[inv[w].object_id].exists
          /\ inv' = [inv EXCEPT ![w].pc = "stage",
                        ![w].activity = upstream[inv[w].object_id].activity]
          /\ UNCHANGED <<last, faults>>
       \/ /\ ~upstream[inv[w].object_id].exists
          /\ Finish(w, "skipped", "activity_not_found", "404", "none", "unread", 0)
          /\ UNCHANGED faults
       \/ /\ CanFail
          /\ \/ Finish(w, "raised", "StravaTokenError", "401", "none", "unread", 0)
             \/ Finish(w, "raised", "StravaApiError", "500", "none", "unread", 0)
          /\ faults' = faults + 1
    /\ UNCHANGED <<Stores, pvars>>

\* a staging insert that is lost without an error
InsStageLost(w) ==
    /\ inv[w].fn = "bq_inserter" /\ inv[w].pc = "stage"
    /\ inv' = [inv EXCEPT ![w].pc = "merge"]
    /\ UNCHANGED <<Stores, last, faults, pvars>>

\* ActivitiesRepo._write_to_staging: a streaming insert of one row
InsStage(w) ==
    /\ inv[w].fn = "bq_inserter" /\ inv[w].pc = "stage"
    /\ \/ /\ activities_staging' = Append(activities_staging, inv[w].activity)
          /\ inv' = [inv EXCEPT ![w].pc = "merge"]
          /\ UNCHANGED <<last, faults>>
       \/ /\ CanFail
          /\ Finish(w, "raised", "BigQueryError", "insert_errors", "none", "unread", 0)
          /\ faults' = faults + 1
          /\ UNCHANGED activities_staging
    /\ UNCHANGED <<upstream, activities, deleted_activities, Blobs, pvars>>

\* ActivitiesRepo._merge_from_staging, and main returns "created"
InsMerge(w) ==
    /\ inv[w].fn = "bq_inserter" /\ inv[w].pc = "merge"
    /\ \/ /\ \E source \in merge_sources(activities_staging, inv[w].object_id) :
                activities' = merge(activities, source)
          /\ Finish(w, "processed", "created", "none", inv[w].activity.type,
                    "unread", 1)
          /\ UNCHANGED faults
       \/ /\ CanFail
          /\ Finish(w, "raised", "BigQueryError", "merge", "none", "unread", 0)
          /\ faults' = faults + 1
          /\ UNCHANGED activities
    /\ UNCHANGED <<upstream, activities_staging, deleted_activities, Blobs, pvars>>

\* an archive step that goes on to the delete whatever the insert affected
InsArchiveNoCheck(w) ==
    /\ inv[w].fn = "bq_inserter" /\ inv[w].pc = "archive"
    /\ deleted_activities'
          = deleted_activities \o select_by_id(activities, inv[w].object_id)
    /\ inv' = [inv EXCEPT ![w].pc = "delete", ![w].wrote = 1]
    /\ UNCHANGED <<upstream, activities_staging, activities, Blobs, last,
                   faults, pvars>>

\* an archive step that refuses an id the archive already holds
InsArchiveRejectsDuplicate(w) ==
    /\ inv[w].fn = "bq_inserter" /\ inv[w].pc = "archive"
    /\ LET rows == select_by_id(activities, inv[w].object_id)
       IN  IF select_by_id(deleted_activities, inv[w].object_id) # <<>>
           THEN /\ Finish(w, "raised", "BigQueryError", "already_archived",
                          "none", "unread", 0)
                /\ UNCHANGED deleted_activities
           ELSE IF rows = <<>>
           THEN /\ Finish(w, "skipped", "activity_not_found", "none", "none",
                          "unread", 0)
                /\ UNCHANGED deleted_activities
           ELSE /\ deleted_activities' = deleted_activities \o rows
                /\ inv' = [inv EXCEPT ![w].pc = "delete", ![w].wrote = 1]
                /\ UNCHANGED last
    /\ UNCHANGED <<upstream, activities_staging, activities, Blobs, faults, pvars>>

\* an archive step that removes the primary row before the copy is inserted
InsArchiveAfterDelete(w) ==
    /\ inv[w].fn = "bq_inserter" /\ inv[w].pc = "archive"
    /\ LET rows == select_by_id(activities, inv[w].object_id)
       IN  \/ /\ rows = <<>>
              /\ Finish(w, "skipped", "activity_not_found", "none", "none",
                        "unread", 0)
              /\ UNCHANGED <<activities, faults>>
           \/ /\ rows # <<>>
              /\ activities' = delete_by_id(activities, inv[w].object_id)
              /\ inv' = [inv EXCEPT ![w].pc = "delete", ![w].wrote = 1]
              /\ UNCHANGED <<last, faults>>
    /\ UNCHANGED <<upstream, activities_staging, deleted_activities, Blobs, pvars>>

\* DeleteService.run: INSERT INTO deleted_activities SELECT ... WHERE id
InsArchive(w) ==
    /\ inv[w].fn = "bq_inserter" /\ inv[w].pc = "archive"
    /\ LET rows == select_by_id(activities, inv[w].object_id)
       IN  \/ /\ rows = <<>>
              /\ Finish(w, "skipped", "activity_not_found", "none", "none",
                        "unread", 0)
              /\ UNCHANGED <<deleted_activities, faults>>
           \/ /\ rows # <<>>
              /\ deleted_activities' = deleted_activities \o rows
              /\ inv' = [inv EXCEPT ![w].pc = "delete", ![w].wrote = 1]
              /\ UNCHANGED <<last, faults>>
           \/ /\ CanFail
              /\ Finish(w, "raised", "BigQueryError", "archive", "none", "unread", 0)
              /\ faults' = faults + 1
              /\ UNCHANGED deleted_activities
    /\ UNCHANGED <<upstream, activities_staging, activities, Blobs, pvars>>

\* DeleteService.run: DELETE FROM activities WHERE id, and "deleted"
InsDelete(w) ==
    /\ inv[w].fn = "bq_inserter" /\ inv[w].pc = "delete"
    /\ \/ /\ activities' = delete_by_id(activities, inv[w].object_id)
          /\ Finish(w, "processed", "deleted", "none", "none", "unread", 2)
          /\ UNCHANGED faults
       \/ /\ CanFail
          /\ Finish(w, "raised", "BigQueryError", "delete", "none", "unread", 1)
          /\ faults' = faults + 1
          /\ UNCHANGED activities
    /\ UNCHANGED <<upstream, activities_staging, deleted_activities, Blobs, pvars>>

(***************************************************************************)
(* The specifications                                                      *)
(***************************************************************************)
Init ==
    /\ upstream \in Upstreams
    /\ activities_staging = <<>>
    /\ activities = <<>>
    /\ deleted_activities = <<>>
    /\ summary_blob = [y \in Years |-> NoSummaryBlob]
    /\ distances_blob = [y \in Years |-> NoDistancesBlob]
    /\ inv = [w \in Workers |-> Idle]
    /\ last = NoResult
    /\ faults = 0
    /\ pcat = [i \in PureIds |-> PureActivity(i, "Ride", 1)]
    /\ pdoc = EmptySummary
    /\ plast = NoOp
    /\ tokens \in {t \in ConfigTokens : t.client_id = 1}
    /\ call = NoCall
    /\ clock = FirstDay
    /\ today_cache = NoToday

PureInit ==
    /\ pcat \in {c \in [PureIds -> UNION {PureActivities(i) : i \in PureIds}] :
                    \A i \in PureIds : c[i].id = i}
    /\ pdoc = EmptySummary
    /\ plast = NoOp
    /\ tokens \in {t \in ConfigTokens : t.client_id = 1}
    /\ call = NoCall
    /\ clock = FirstDay
    /\ today_cache = NoToday
    /\ upstream = CHOOSE u \in Upstreams : u[2].activity.type = "Run"
    /\ activities_staging = <<>>
    /\ activities = <<>>
    /\ deleted_activities = <<>>
    /\ summary_blob = [y \in Years |-> NoSummaryBlob]
    /\ distances_blob = [y \in Years |-> NoDistancesBlob]
    /\ inv = [w \in Workers |-> Idle]
    /\ last = NoResult
    /\ faults = 0

Deliver ==
    \E w \in Workers, fn \in Functions :
        \/ \E event \in MalformedEnvelopes : DeliverMalformed(fn, event)
        \/ \E event \in WellFormedEnvelopes :
              \/ DeliverUpdate(fn, event)
              \/ DeliverCreate(w, fn, event)
              \/ DeliverDelete(w, fn, event)

Next ==
    \/ Deliver
    \/ \E id \in ActivityIds : UpstreamDelete(id)
    \/ \E w \in Workers :
          \/ AggFetch(w) \/ AggLookup(w) \/ AggRead(w)
          \/ AggWriteSummary(w) \/ AggWriteDistances(w)
          \/ InsRefresh(w) \/ InsFetch(w) \/ InsStage(w)
          \/ InsMerge(w) \/ InsArchive(w) \/ InsDelete(w)

Spec == Init /\ [][Next]_vars

SpecPure == PureInit /\ [][PureNext]_vars

\* the pure operations and the pacing calculation over the days
PacingNext ==
    \/ PureNext
    \/ PureCalculate
    \/ Tick
    \/ ColdStart

SpecPacing == PureInit /\ [][PacingNext]_vars

\* the warehouse inserter alone, with activities that are edited upstream
WarehouseNext ==
    \/ \E w \in Workers, event \in WellFormedEnvelopes :
          \/ DeliverCreate(w, "bq_inserter", event)
          \/ DeliverDelete(w, "bq_inserter", event)
    \/ \E id \in ActivityIds : UpstreamEdit(id) \/ UpstreamDelete(id)
    \/ \E w \in Workers :
          \/ InsRefresh(w) \/ InsFetch(w) \/ InsStage(w)
          \/ InsMerge(w) \/ InsArchive(w) \/ InsDelete(w)

SpecWarehouse == Init /\ [][WarehouseNext]_vars

\* the aggregator's creates over the days: the clock moves on and function
\* instances are reused or replaced
CalendarNext ==
    \/ \E w \in Workers, event \in WellFormedEnvelopes :
          DeliverCreate(w, "aggregator", event)
    \/ \E w \in Workers :
          \/ AggFetch(w) \/ AggRead(w)
          \/ AggWriteSummary(w) \/ AggWriteDistances(w)
    \/ Tick
    \/ ColdStart

SpecCalendar == Init /\ [][CalendarNext]_vars

\* the Strava adapters alone, against a Strava that answers as it likes
StravaInit ==
    /\ tokens \in ConfigTokens
    /\ call = NoCall
    /\ clock = FirstDay
    /\ today_cache = NoToday
    /\ upstream = CHOOSE u \in Upstreams : u[2].activity.type = "Run"
    /\ activities_staging = <<>>
    /\ activities = <<>>
    /\ deleted_activities = <<>>
    /\ summary_blob = [y \in Years |-> NoSummaryBlob]
    /\ distances_blob = [y \in Years |-> NoDistancesBlob]
    /\ inv = [w \in Workers |-> Idle]
    /\ last = NoResult
    /\ faults = 0
    /\ pcat = [i \in PureIds |-> PureActivity(i, "Ride", 1)]
    /\ pdoc = EmptySummary
    /\ plast = NoOp

StravaNext ==
    \/ \E op \in AdapterOps, id \in ActivityIds \cup {0} : StravaCall(op, id)
    \/ StravaRequest
    \/ StravaReturn
    \/ \E id \in ActivityIds : UpstreamDelete(id)

SpecStrava == StravaInit /\ [][StravaNext]_vars

\* two function instances: Pub/Sub delivers at least once, and a create
\* event reaches a second instance while the first still handles it
ConcWorkers == {1, 2}

ConcInit ==
    /\ upstream \in Upstreams
    /\ activities_staging = <<>>
    /\ activities = <<>>
    /\ deleted_activities = <<>>
    /\ summary_blob = [y \in Years |-> NoSummaryBlob]
    /\ distances_blob = [y \in Years |-> NoDistancesBlob]
    /\ inv = [w \in ConcWorkers |-> Idle]
    /\ last = NoResult
    /\ faults = 0
    /\ pcat = [i \in PureIds |-> PureActivity(i, "Ride", 1)]
    /\ pdoc = EmptySummary
    /\ plast = NoOp
    /\ tokens \in {t \in ConfigTokens : t.client_id = 1}
    /\ call = NoCall
    /\ clock = FirstDay
    /\ today_cache = NoToday

\* a create event reaches the aggregator on a free instance; the instances
\* that are busy handle the same event.  No lock is taken.
DeliverConcurrently(w, event) ==
    /\ inv[w].pc = "idle"
    /\ main_decode(event).status = "ok"
    /\ main_decode(event).detail = "create"
    /\ \A v \in ConcWorkers :
          inv[v].pc # "idle" => inv[v].object_id = event.payload.object_id
    /\ inv' = [inv EXCEPT ![w] =
                  [Idle EXCEPT !.fn = "aggregator", !.aspect = "create",
                               !.object_id = event.payload.object_id,
                               !.pc = "fetch",
                               !.dup = \E v \in ConcWorkers :
                                          inv[v].pc # "idle"]]
    /\ UNCHANGED <<Stores, last, faults, pvars>>

ConcNext ==
    \E w \in ConcWorkers :
        \/ \E event \in WellFormedEnvelopes : DeliverConcurrently(w, event)
        \/ AggFetch(w)
        \/ AggRead(w)
        \/ AggWriteSummary(w)
        \/ AggWriteDistances(w)

SpecConcurrent == ConcInit /\ [][ConcNext]_vars

\* an event of an activity reaches a function on a free instance while
\* other instances still handle events of the same activity: the create and
\* the delete of one activity race, in the aggregator and in the inserter
DeliverRacing(w, fn, event) ==
    /\ inv[w].pc = "idle"
    /\ main_decode(event).status = "ok"
    /\ main_decode(event).detail \in {"create", "delete"}
    /\ \A v \in ConcWorkers :
          inv[v].pc # "idle" => inv[v].object_id = event.payload.object_id
    /\ main_decode(event).detail = "delete"
       => ~upstream[event.payload.object_id].exists
    /\ (fn = "bq_inserter" /\ main_decode(event).detail = "create")
       => Len(activities_staging) < MaxStaged
    /\ inv' = [inv EXCEPT ![w] =
                  [Idle EXCEPT !.fn = fn,
                               !.aspect = main_decode(event).detail,
                               !.object_id = event.payload.object_id,
                               !.pc = IF main_decode(event).detail = "create"
                                      THEN IF fn = "aggregator"
                                           THEN "fetch" ELSE "refresh"
                                      ELSE IF fn = "aggregator"
                                           THEN "lookup" ELSE "archive",
                               !.dup = Redelivery(fn, main_decode(event).detail,
                                                  event.payload.object_id),
                               !.partial = PartialExport(fn,
                                               main_decode(event).detail,
                                               event.payload.object_id)]]
    /\ UNCHANGED <<Stores, last, faults, pvars>>

\* the aggregator's create and delete of one activity race, while the
\* inserter writes the warehouse rows one invocation at a time
RaceNext ==
    \/ \E w \in ConcWorkers, event \in WellFormedEnvelopes :
          DeliverRacing(w, "aggregator", event)
    \/ /\ \A w \in ConcWorkers : inv[w].pc = "idle"
       /\ \E event \in WellFormedEnvelopes :
             DeliverCreate(1, "bq_inserter", event)
    \/ \E id \in ActivityIds : UpstreamDelete(id)
    \/ \E w \in ConcWorkers :
          \/ AggFetch(w) \/ AggLookup(w) \/ AggRead(w)
          \/ AggWriteSummary(w) \/ AggWriteDistances(w)
    \/ InsRefresh(1) \/ InsFetch(1) \/ InsStage(1) \/ InsMerge(1)

\* a Ride and a Run on Strava, two instances, empty stores
RaceInit ==
    /\ ConcInit
    /\ upstream[2].activity.type = "Run"

SpecRace == RaceInit /\ [][RaceNext]_vars

\* the inserter's create and delete of one activity race
WarehouseRaceNext ==
    \/ \E w \in ConcWorkers, event \in WellFormedEnvelopes :
          DeliverRacing(w, "bq_inserter", event)
    \/ \E id \in ActivityIds : UpstreamDelete(id)
    \/ \E w \in ConcWorkers :
          \/ InsRefresh(w) \/ InsFetch(w) \/ InsStage(w)
          \/ InsMerge(w) \/ InsArchive(w) \/ InsDelete(w)

SpecWarehouseRace == ConcInit /\ [][WarehouseRaceNext]_vars

\* a create event reaches the aggregator on a free instance, whatever the
\* other instance is handling: the creates of two activities overlap
DeliverOverlapping(w, event) ==
    /\ inv[w].pc = "idle"
    /\ main_decode(event).status = "ok"
    /\ main_decode(event).detail = "create"
    /\ inv' = [inv EXCEPT ![w] =
                  [Idle EXCEPT !.fn = "aggregator", !.aspect = "create",
                               !.object_id = event.payload.object_id,
                               !.pc = "fetch",
                               !.dup = Redelivery("aggregator", "create",
                                                  event.payload.object_id),
                               !.partial = PartialExport("aggregator", "create",
                                               event.payload.object_id)]]
    /\ UNCHANGED <<Stores, last, faults, pvars>>

OverlapNext ==
    \E w \in ConcWorkers :
        \/ \E event \in WellFormedEnvelopes : DeliverOverlapping(w, event)
        \/ AggFetch(w)
        \/ AggRead(w)
        \/ AggWriteSummary(w)
        \/ AggWriteDistances(w)

SpecOverlap == ConcInit /\ [][OverlapNext]_vars

\* the aggregator's creates, one invocation at a time, of activities whose
\* start date is edited on Strava between deliveries
EditedNext ==
    \/ \E event \in WellFormedEnvelopes : DeliverCreate(1, "aggregator", event)
    \/ \E id \in ActivityIds : UpstreamMove(id)
    \/ AggFetch(1)
    \/ AggRead(1)
    \/ AggWriteSummary(1)
    \/ AggWriteDistances(1)

SpecEdited == Init /\ [][EditedNext]_vars

\* the pure operations on rides of 8 km and of 20 km
RideLengths == {8000, 20000}

RoundTripInit ==
    /\ pcat \in {c \in [PureIds -> [id : PureIds, type : AllowedTypes,
                                     start_date_local :
                                         [year : {1}, day : 1..DaysPerYear,
                                          hour : {8}],
                                     distance : {Fix(m) : m \in RideLengths}]] :
                    \A i \in PureIds : c[i].id = i}
    /\ pdoc = EmptySummary
    /\ plast = NoOp
    /\ tokens \in {t \in ConfigTokens : t.client_id = 1}
    /\ call = NoCall
    /\ clock = FirstDay
    /\ today_cache = NoToday
    /\ upstream = CHOOSE u \in Upstreams : u[2].activity.type = "Run"
    /\ activities_staging = <<>>
    /\ activities = <<>>
    /\ deleted_activities = <<>>
    /\ summary_blob = [y \in Years |-> NoSummaryBlob]
    /\ distances_blob = [y \in Years |-> NoDistancesBlob]
    /\ inv = [w \in Workers |-> Idle]
    /\ last = NoResult
    /\ faults = 0

SpecRoundTrip == RoundTripInit /\ [][PureNext]_vars

(***************************************************************************)
(* Properties                                                              *)
(***************************************************************************)
\* C1: merge_create is idempotent.  Once merge_create has been applied with
\* an activity of an allow-listed type, applying it again with the same
\* activity leaves the document as it is and is reported as a no-op, so
\* that nothing is exported.
C1_MergeCreateIdempotent ==
    [][(/\ plast.op = "merge_create"
        /\ plast.outcome \in {"updated", "noop"}
        /\ PureMergeCreate(plast.id))
       => (/\ pdoc' = pdoc
           /\ plast'.outcome = "noop"
           /\ update_summary(pdoc, pcat[plast.id]).none
           /\ ~run_update(pdoc, pcat[plast.id]).export)]_vars

\* the second application has happened: a no-op on a document that holds
\* the activity next to another one
C1_SecondApplication ==
    /\ plast.op = "merge_create" /\ plast.outcome = "noop"
    /\ plast.before = pdoc
    /\ date_str(pcat[plast.id]) \in DOMAIN pdoc
    /\ Len(pdoc[date_str(pcat[plast.id])].activity_ids) = 2

\* the sum of distance_miles of the activities with the given ids
RECURSIVE SumMiles(_)
SumMiles(ids) ==
    IF ids = <<>> THEN 0
    ELSE float_add(distance_miles(upstream[Head(ids)].activity),
                   SumMiles(Tail(ids)))

\* C2: distance invariant.  In every stored year document, every day
\* entry's distance_miles is the sum of distance_miles of the activities
\* whose ids it lists.
C2_DistanceInvariant ==
    \A y \in Years :
        LET summary == read_activity_summary_by_year(summary_blob, y)
        IN  \A d \in DOMAIN summary :
                summary[d].distance_miles = SumMiles(summary[d].activity_ids)

\* C3: no empty days.  No day entry of a reachable document has an empty
\* activity_ids, and a remove_delete that takes the last id of a day deletes
\* the day key.
C3_NoEmptyDays ==
    /\ \A d \in DOMAIN pdoc : pdoc[d].activity_ids # <<>>
    /\ (/\ plast.op = "remove_delete" /\ plast.outcome = "removed"
        /\ plast.before[date_str(pcat[plast.id])].activity_ids = <<plast.id>>)
       => date_str(pcat[plast.id]) \notin DOMAIN pdoc

\* a remove_delete has taken the last id of a day, and another day remains
C3_LastIdRemoved ==
    /\ plast.op = "remove_delete" /\ plast.outcome = "removed"
    /\ date_str(pcat[plast.id]) \in DOMAIN plast.before
    /\ date_str(pcat[plast.id]) \notin DOMAIN pdoc
    /\ pdoc # EmptySummary

\* C4: type filter.  No activity of a type outside the allow-list is listed
\* in any day entry, whether the document was built by per-event creates or
\* by the full-year batch rebuild, and a delete for such an activity leaves
\* the document as it was.
C4_TypeFilter ==
    /\ \A d \in DOMAIN pdoc : \A k \in 1..Len(pdoc[d].activity_ids) :
          is_allowed_type(pcat[pdoc[d].activity_ids[k]])
    /\ (plast.op = "remove_delete" /\ ~is_allowed_type(pcat[plast.id]))
       => pdoc = plast.before

C6_DuplicatesTolerated ==
    (last.fn = "aggregator" /\ last.dup) =>
        /\ last.wrote = 0
        /\ (last.aspect = "delete" /\ last.status # "raised")
              => last.status = "skipped"

\* C7: decode failures are permanent.  Every malformed envelope ends in the
\* failed result; the handler does not raise.
C7_DecodeFailuresPermanent ==
    last.malformed => last.status = "failed"

\* C8: credential failures are not retried.  A create whose token refresh
\* or activity fetch answers 401 is acknowledged; the handler does not raise.
C8_CredentialFailuresNotRetried ==
    (last.aspect = "create" /\ last.cause = "401") => last.status # "raised"

\* C9: no partial writes.  A blob changes only in the export of an
\* aggregator invocation whose activity was fetched or looked up, passed
\* the type filter, was merged into or removed from the document read (no
\* no-op) and whose timeseries could be computed.
C9_NoPartialWrites ==
    [][(summary_blob' # summary_blob \/ distances_blob' # distances_blob)
       => \E w \in Workers :
             /\ inv[w].fn = "aggregator"
             /\ inv[w].pc \in {"write_summary", "write_distances"}
             /\ inv[w].activity.id = inv[w].object_id
             /\ is_allowed_type(inv[w].activity)
             /\ inv[w].present = IF inv[w].aspect = "create" THEN "no" ELSE "yes"
             /\ inv[w].activity.start_date_local.year <= clock.year]_vars

\* a create that was a no-op, for an activity the stored document holds
C9_NoOpWroteNothing ==
    /\ last.fn = "aggregator" /\ last.aspect = "create"
    /\ last.present = "yes" /\ last.status = "processed" /\ last.wrote = 0
    /\ summary_blob[1].exists /\ distances_blob[1].exists

\* C10: WarehouseSync.write is idempotent.  The primary table never holds
\* two rows of one id, and after a completed write it holds exactly one row
\* of the id written.
C10_OneRowPerId ==
    /\ \A id \in ActivityIds : Cardinality(RowsWithId(activities, id)) <= 1
    /\ (last.fn = "bq_inserter" /\ last.aspect = "create"
        /\ last.status = "processed")
       => Cardinality(RowsWithId(activities, last.object_id)) = 1

\* the same id has been written twice
C10_WrittenTwice ==
    /\ last.fn = "bq_inserter" /\ last.aspect = "create"
    /\ last.status = "processed"
    /\ Cardinality(RowsWithId(activities_staging, last.object_id)) = 2
    /\ Cardinality(RowsWithId(activities, last.object_id)) = 1

\* the row staged last for the id: the record of the latest write
LastStaged(id) ==
    activities_staging[CHOOSE i \in RowsWithId(activities_staging, id) :
                          \A j \in RowsWithId(activities_staging, id) : j <= i]

\* the columns of a row that the MERGE statement names
NamedColumns(row) ==
    [id |-> row.id, type |-> row.type,
     start_date_local |-> row.start_date_local, distance |-> row.distance]

\* C11: the merge takes the row staged last.  After a completed write the
\* primary-table row of the id carries the values of the record written,
\* whatever rows of the id were staged before.
C11_MergeTakesLastStaged ==
    (last.fn = "bq_inserter" /\ last.aspect = "create"
     /\ last.status = "processed")
    => \A i \in RowsWithId(activities, last.object_id) :
          NamedColumns(activities[i]) = NamedColumns(LastStaged(last.object_id))

\* C12: write(record) stages, then merges.  The merge is reached only from
\* a staging insert that put the record into the staging table; a failed
\* staging insert raises and leaves both tables as they were; a create
\* changes the primary table only in the merge; the merge ends in the
\* statistics of a completed write or in an error that leaves the primary
\* table as it was.
C12_StageThenMerge ==
    [][\A w \in Workers :
        /\ (inv[w].pc # "merge" /\ inv'[w].pc = "merge")
              => /\ inv[w].pc = "stage"
                 /\ activities_staging'
                       = Append(activities_staging, inv'[w].activity)
                 /\ activities' = activities
        /\ (inv[w].pc = "stage" /\ inv'[w].pc # "merge" /\ inv' # inv)
              => /\ last'.status = "raised"
                 /\ activities' = activities
                 /\ activities_staging' = activities_staging
        /\ (inv[w].aspect = "create" /\ activities' # activities)
              => inv[w].pc = "merge"
        /\ (inv[w].pc = "merge" /\ inv'[w].pc # "merge")
              => \/ last'.status = "processed" /\ last'.wrote = 1
                 \/ last'.status = "raised" /\ activities' = activities]_vars

\* a staging insert has failed while the primary table holds a row
C12_StagingInsertFailed ==
    /\ last.fn = "bq_inserter" /\ last.aspect = "create"
    /\ last.cause = "insert_errors" /\ last.status = "raised"
    /\ activities # <<>>
    /\ Len(activities_staging) = Len(activities)

\* C13: archive_and_remove.  When no row of the id is in the primary table
\* the archive insert affects zero rows: the operation returns skipped with
\* activity_not_found and touches neither table.  Otherwise the archive gets
\* the copy first, the delete follows, and the operation returns processed
\* with deleted, the id gone from the primary table and held by the archive.
C13_ArchiveAndRemove ==
    [][\A w \in Workers :
        (inv[w].fn = "bq_inserter" /\ inv[w].aspect = "delete") =>
          /\ (inv[w].pc = "archive" /\ inv' # inv /\ faults' = faults)
                => IF RowsWithId(activities, inv[w].object_id) = {}
                   THEN /\ last'.status = "skipped"
                        /\ last'.detail = "activity_not_found"
                        /\ last'.wrote = 0
                        /\ inv'[w].pc = "idle"
                        /\ UNCHANGED Warehouse
                   ELSE /\ inv'[w].pc = "delete"
                        /\ RowsWithId(deleted_activities', inv[w].object_id) # {}
                        /\ activities' = activities
          /\ activities' # activities
                => /\ inv[w].pc = "delete"
                   /\ RowsWithId(deleted_activities, inv[w].object_id) # {}
          /\ (inv[w].pc = "delete" /\ inv' # inv /\ faults' = faults)
                => /\ last'.status = "processed" /\ last'.detail = "deleted"
                   /\ RowsWithId(activities', inv[w].object_id) = {}
                   /\ RowsWithId(deleted_activities', inv[w].object_id) # {}]_vars

\* a delete has found nothing to archive while the other activity is in the
\* primary table
C13_NothingToArchive ==
    /\ last.fn = "bq_inserter" /\ last.aspect = "delete"
    /\ last.status = "skipped" /\ last.detail = "activity_not_found"
    /\ activities # <<>>

\* C14: failure and retry of archive_and_remove.  A failed archive insert
\* and a failed delete both raise.  An archive insert for an id the archive
\* already holds, with the row still in the primary table, is not refused:
\* it goes on to the delete, and the operation completes with the id gone
\* from the primary table and held by the archive.
C14_ArchiveRetryTolerated ==
    [][\A w \in Workers :
        (inv[w].fn = "bq_inserter" /\ inv[w].aspect = "delete") =>
          /\ (inv[w].pc \in {"archive", "delete"} /\ faults' # faults)
                => /\ last'.status = "raised"
                   /\ inv'[w].pc = "idle"
          /\ (/\ inv[w].pc = "archive" /\ inv' # inv /\ faults' = faults
              /\ RowsWithId(deleted_activities, inv[w].object_id) # {}
              /\ RowsWithId(activities, inv[w].object_id) # {})
                => inv'[w].pc = "delete"
          /\ (/\ inv[w].pc = "delete" /\ inv' # inv /\ faults' = faults
              /\ Cardinality(RowsWithId(deleted_activities, inv[w].object_id)) > 1)
                => /\ last'.status = "processed"
                   /\ RowsWithId(activities', inv[w].object_id) = {}
                   /\ RowsWithId(deleted_activities', inv[w].object_id) # {}]_vars

\* the delete failed after the archive insert, and the retry has completed
C14_RetryCompleted ==
    /\ last.fn = "bq_inserter" /\ last.aspect = "delete"
    /\ last.status = "processed" /\ faults > 0
    /\ Cardinality(RowsWithId(deleted_activities, last.object_id)) = 2
    /\ RowsWithId(activities, last.object_id) = {}

\* the rows of the id in the primary and in the archive table
WarehouseRows(id) ==
    {activities[i] : i \in RowsWithId(activities, id)}
        \cup {deleted_activities[i] : i \in RowsWithId(deleted_activities, id)}

\* C15: lookup_metadata.  Whenever a row of the id is in the primary or in
\* the archive table the lookup returns that activity's metadata (id, type,
\* start_date_local, distance), and it raises ActivityNotFound exactly when
\* the id is in neither table.
C15_LookupMetadata ==
    /\ \A w \in Workers :
          (inv[w].fn = "aggregator" /\ inv[w].aspect = "delete"
           /\ inv[w].pc = "read")
          => \E row \in WarehouseRows(inv[w].object_id) :
                /\ inv[w].activity.id = row.id
                /\ inv[w].activity.type = row.type
                /\ inv[w].activity.start_date_local = row.start_date_local
                /\ inv[w].activity.distance = row.distance
    /\ (last.fn = "aggregator" /\ last.aspect = "delete"
        /\ last.cause # "500")
       => (last.cause = "activity_not_found_in_bigquery"
              <=> WarehouseRows(last.object_id) = {})

\* the activity of the last pure operation, and its day
LastActivity == pcat[plast.id]

LastDay == date_str(pcat[plast.id])

\* the id is listed on the activity's day of the document
Recorded(summary, activity) ==
    /\ date_str(activity) \in DOMAIN summary
    /\ \E k \in 1..Len(summary[date_str(activity)].activity_ids) :
          summary[date_str(activity)].activity_ids[k] = activity.id

\* C16: remove_delete raises when the activity's date is not a key of the
\* document or its id is not listed on that day, and only then, and a
\* remove_delete that raises leaves the document as it was.
C16_RemoveRaisesWhenAbsent ==
    (plast.op = "remove_delete" /\ is_allowed_type(LastActivity)) =>
        /\ plast.outcome = "raised" <=> ~Recorded(plast.before, LastActivity)
        /\ plast.outcome = "raised" => pdoc = plast.before

\* a remove_delete has raised for an id that is missing on a day the
\* document has
C16_IdMissingOnDay ==
    /\ plast.op = "remove_delete" /\ plast.outcome = "raised"
    /\ LastDay \in DOMAIN plast.before
    /\ pdoc = plast.before

\* C17: merge_create of an allow-listed activity that is not yet recorded.
\* On a day the document has, the id is appended and the miles are added;
\* otherwise a day entry with these miles and this id alone is created;
\* every other day entry stays as it was.
C17_MergeCreateEffect ==
    (plast.op = "merge_create" /\ is_allowed_type(LastActivity)
     /\ ~Recorded(plast.before, LastActivity)) =>
        /\ plast.outcome = "updated"
        /\ DOMAIN pdoc = DOMAIN plast.before \cup {LastDay}
        /\ \A d \in DOMAIN plast.before : d # LastDay => pdoc[d] = plast.before[d]
        /\ IF LastDay \in DOMAIN plast.before
           THEN /\ pdoc[LastDay].activity_ids
                      = plast.before[LastDay].activity_ids \o <<plast.id>>
                /\ pdoc[LastDay].distance_miles
                      = float_add(plast.before[LastDay].distance_miles,
                                  distance_miles(LastActivity))
           ELSE /\ pdoc[LastDay].activity_ids = <<plast.id>>
                /\ pdoc[LastDay].distance_miles = distance_miles(LastActivity)

\* a merge_create has added an activity to a day that had one already
C17_AddedToExistingDay ==
    /\ plast.op = "merge_create" /\ plast.outcome = "updated"
    /\ LastDay \in DOMAIN plast.before
    /\ Len(pdoc[LastDay].activity_ids) = 2

\* C18: remove_delete of a recorded activity takes exactly its id from the
\* day's activity_ids and its miles from the day's distance_miles; the other
\* ids of the day and every other day entry stay as they were.
C18_RemoveDeleteEffect ==
    (plast.op = "remove_delete" /\ is_allowed_type(LastActivity)
     /\ Recorded(plast.before, LastActivity)) =>
        /\ plast.outcome = "removed"
        /\ \A d \in DOMAIN plast.before :
              d # LastDay => (d \in DOMAIN pdoc /\ pdoc[d] = plast.before[d])
        /\ DOMAIN pdoc \subseteq DOMAIN plast.before
        /\ LastDay \in DOMAIN pdoc =>
              /\ pdoc[LastDay].activity_ids
                    = SelectSeq(plast.before[LastDay].activity_ids,
                                LAMBDA x : x # plast.id)
              /\ pdoc[LastDay].distance_miles
                    = float_sub(plast.before[LastDay].distance_miles,
                                distance_miles(LastActivity))
        /\ LastDay \notin DOMAIN pdoc =>
              plast.before[LastDay].activity_ids = <<plast.id>>

\* a remove_delete has taken one of two ids from a day
C18_OneOfTwoRemoved ==
    /\ plast.op = "remove_delete" /\ plast.outcome = "removed"
    /\ Len(plast.before[LastDay].activity_ids) = 2
    /\ LastDay \in DOMAIN pdoc
    /\ Len(pdoc[LastDay].activity_ids) = 1

\* C19: update events.  An event with aspect update never starts an
\* invocation that calls out: the function returns skipped at once, and no
\* store, no invocation and no outbound call is touched.
C19_UpdateSkipped ==
    [][/\ \A w \in Workers : inv'[w].aspect # "update"
       /\ (last'.aspect = "update" /\ last' # last)
             => /\ last'.status = "skipped"
                /\ last'.wrote = 0
                /\ UNCHANGED <<Stores, inv, faults>>]_vars

\* the inserter has skipped an update while both stores hold data
C19_InserterSkippedUpdate ==
    /\ last.fn = "bq_inserter" /\ last.aspect = "update"
    /\ last.status = "skipped"
    /\ summary_blob[1].exists /\ activities # <<>>

\* C20: a create whose activity is gone upstream.  When the fetch answers
\* 404 the function returns skipped with activity_not_found, does not
\* raise, and writes nothing to the warehouse or to the blob store.
C20_CreateNotFoundSkipped ==
    [][\A w \in Workers :
        (/\ inv[w].aspect = "create" /\ inv[w].pc = "fetch"
         /\ ~upstream[inv[w].object_id].exists
         /\ inv' # inv /\ faults' = faults)
        => /\ last'.status = "skipped"
           /\ last'.detail = "activity_not_found"
           /\ last'.wrote = 0
           /\ inv'[w].pc = "idle"
           /\ UNCHANGED Stores]_vars

\* the inserter has skipped a create for an activity deleted upstream
C20_InserterCreateSkipped ==
    /\ last.fn = "bq_inserter" /\ last.aspect = "create"
    /\ last.cause = "404" /\ last.status = "skipped"
    /\ ~upstream[last.object_id].exists
    /\ activities # <<>>

\* C21: unsupported types.  A create or delete event handled by the
\* aggregator for an activity whose type is outside the allow-list ends in
\* the status skipped with the reason unsupported_type, never in processed
\* with created or deleted.
C21_UnsupportedTypeSkipped ==
    (/\ last.fn = "aggregator" /\ last.aspect \in {"create", "delete"}
     /\ last.type \in ActivityTypes \ AllowedTypes
     /\ last.status # "raised")
    => /\ last.status = "skipped"
       /\ last.detail = "unsupported_type"

\* C22: read_by_id classifies the responses alike in both fetch profiles.
\* A 404 raises ActivityNotFoundError, a 401 the credential error
\* StravaTokenError, any other non-2xx the transient StravaApiError, and a
\* 2xx returns the activity asked for.
C22_SameClassification ==
    (/\ call.op \in {"detailed", "minimal"}
     /\ call.outcome \in {"returned", "raised"}
     /\ ~call.resp.failed)
    => IF call.resp.status_code = 404
       THEN call.outcome = "raised" /\ call.error = "ActivityNotFoundError"
       ELSE IF call.resp.status_code = 401
       THEN call.outcome = "raised" /\ call.error = "StravaTokenError"
       ELSE IF call.resp.status_code \notin 200..299
       THEN call.outcome = "raised" /\ call.error = "StravaApiError"
       ELSE call.outcome = "returned" /\ call.activity.id = call.id

C24_RoundTrip ==
    [][/\ \A w \in Workers :
            (inv[w].pc = "write_summary" /\ inv'[w].pc = "write_distances")
            => /\ read_activity_summary_by_year(summary_blob',
                      inv[w].activity.start_date_local.year) = inv[w].summary
               /\ \A y \in Years \ {inv[w].activity.start_date_local.year} :
                      summary_blob'[y] = summary_blob[y]
       /\ \A y \in Years :
            read_activity_summary_by_year(summary_blob', y)
                # read_activity_summary_by_year(summary_blob, y)
            => \E w \in Workers :
                  /\ inv[w].pc = "write_summary"
                  /\ inv[w].activity.start_date_local.year = y]_vars

\* a delete has replaced last year's document by the empty one, and this
\* year's document is as it was written
C24_DocumentReplaced ==
    /\ last.fn = "aggregator" /\ last.aspect = "delete"
    /\ last.status = "processed" /\ last.wrote = 2
    /\ summary_blob[0].exists
    /\ read_activity_summary_by_year(summary_blob, 0) = EmptySummary
    /\ DOMAIN read_activity_summary_by_year(summary_blob, 1)
          = {[year |-> 1, day |-> 1]}

\* the document that holds the activity's day and nothing else
OneDay(activity) ==
    [d \in {date_str(activity)} |->
        [distance_miles |-> distance_miles(activity),
         activity_ids |-> <<activity.id>>]]

\* C25: a year without a stored document reads as the empty document, and
\* the read raises nothing: the first create of an allow-listed activity in
\* a year that has begun goes on to the export with a document that holds
\* that activity's day alone, and this is the document then stored.
C25_FirstCreateOfYear ==
    [][/\ \A y \in Years :
            ~summary_blob[y].exists
            => read_activity_summary_by_year(summary_blob, y) = EmptySummary
       /\ \A w \in Workers :
            (/\ inv[w].fn = "aggregator" /\ inv[w].aspect = "create"
             /\ ~summary_blob[inv[w].activity.start_date_local.year].exists)
            => /\ (/\ inv[w].pc = "read" /\ inv' # inv /\ faults' = faults
                   /\ inv[w].activity.start_date_local.year <= clock.year)
                     => /\ inv'[w].pc = "write_summary"
                        /\ inv'[w].summary = OneDay(inv[w].activity)
               /\ (inv[w].pc = "write_summary" /\ inv'[w].pc = "write_distances")
                     => read_activity_summary_by_year(summary_blob',
                            inv[w].activity.start_date_local.year)
                        = OneDay(inv[w].activity)]_vars

\* last year's first activity has been stored while this year's document
\* exists
C25_FirstOfLastYear ==
    /\ last.fn = "aggregator" /\ last.aspect = "create"
    /\ last.status = "processed" /\ last.wrote = 2 /\ last.object_id = 2
    /\ summary_blob[1].exists
    /\ read_activity_summary_by_year(summary_blob, 0)
          = OneDay(upstream[2].activity)

\* C26: pacing monotonicity.  The cumulative-distance timeseries computed
\* from a document that merge_create and remove_delete have produced is in
\* date order and never decreases from one date to the next.
C26_PacingMonotone ==
    plast.op = "calculate"
    => \A k \in 1..(Len(plast.chart) - 1) :
          /\ plast.chart[k].y <= plast.chart[k + 1].y
          /\ plast.chart[k].x.year = plast.chart[k + 1].x.year
          /\ plast.chart[k].x.day < plast.chart[k + 1].x.day

\* a timeseries over the whole year, of a document with two days of which
\* the later has fewer miles
C26_TwoDaysCharted ==
    /\ plast.op = "calculate" /\ plast.outcome = "charted"
    /\ Len(plast.chart) = DaysPerYear
    /\ \E d1, d2 \in DOMAIN pdoc :
          /\ d1.day < d2.day
          /\ pdoc[d1].distance_miles > pdoc[d2].distance_miles
    /\ plast.chart[1].y < plast.chart[DaysPerYear].y

\* the day entries of the document dated on or before the given date
DatedUpTo(summary, date) ==
    {d \in DOMAIN summary :
        d.year < date.year \/ (d.year = date.year /\ d.day <= date.day)}

\* the sum of distance_miles of the given day entries
RECURSIVE SumDays(_, _)
SumDays(summary, days) ==
    IF days = {} THEN 0
    ELSE LET d == CHOOSE x \in days : TRUE
         IN  summary[d].distance_miles + SumDays(summary, days \ {d})

\* the last day of the series of the year: today, or the year's last day
\* when the year is over
SeriesEnd(year) ==
    IF year < clock.year THEN num_days_in_year(year) ELSE clock.day

\* C27: the cumulative-distance timeseries.  The series the aggregator
\* computes for a year has one point per calendar day from the first day of
\* the year through today, or through the last day of a year that is over,
\* in date order, and its value at a date is the sum of distance_miles of
\* the document's day entries dated on or before it.
C27_OnePointPerDay ==
    [][\A w \in Workers :
        (inv[w].fn = "aggregator" /\ inv[w].pc = "read"
         /\ inv'[w].pc = "write_summary")
        => LET year == inv[w].activity.start_date_local.year
               series == inv'[w].payload.distance_traveled
           IN  /\ Len(series) = SeriesEnd(year)
               /\ \A k \in 1..Len(series) :
                     /\ series[k].x = [year |-> year, day |-> k]
                     /\ series[k].y
                           = SumDays(inv'[w].summary,
                                 DatedUpTo(inv'[w].summary, series[k].x))]_vars

\* C28: write(record) stores the record wholesale.  After a completed write
\* every field of the primary-table row of the id equals the field of the
\* record written, in the insert branch and in the update branch.
C28_StoredWholesale ==
    (last.fn = "bq_inserter" /\ last.aspect = "create"
     /\ last.status = "processed")
    => \A i \in RowsWithId(activities, last.object_id) :
          activities[i] = LastStaged(last.object_id)

\* C29: the delete path of the aggregator never calls the upstream provider.
\* An aggregator invocation that handles a delete is never at the token
\* refresh nor at the activity fetch, it takes its activity only in the
\* lookup and only as the metadata of a warehouse row of the id, it leaves
\* the tokens as they are, and no outcome of it comes from an upstream call.
C29_DeleteNeverCallsUpstream ==
    [][\A w \in Workers :
        /\ (inv'[w].fn = "aggregator" /\ inv'[w].aspect = "delete")
           => /\ inv'[w].pc \in {"lookup", "read", "write_summary",
                                 "write_distances"}
              /\ tokens' = tokens
              /\ inv'[w].activity # inv[w].activity
                 => /\ inv[w].pc = "lookup"
                    /\ \E row \in WarehouseRows(inv[w].object_id) :
                          inv'[w].activity = read_activity_metadata(row)
        /\ (inv[w].fn = "aggregator" /\ inv[w].aspect = "delete"
            /\ inv'[w].pc = "idle")
           => /\ last'.cause \notin {"401", "404"}
              /\ last'.detail \notin {"HTTPError", "activity_not_found",
                                      "StravaTokenError", "StravaApiError"}
              /\ last'.type # "none"
                 => \E row \in WarehouseRows(inv[w].object_id) :
                       last'.type = row.type]_vars

\* the aggregator has removed from the document an activity that is gone
\* upstream, with the metadata of its archived row
C29_DeletedWhileGoneUpstream ==
    /\ last.fn = "aggregator" /\ last.aspect = "delete"
    /\ last.status = "processed" /\ last.wrote = 2
    /\ ~upstream[last.object_id].exists
    /\ RowsWithId(activities, last.object_id) = {}
    /\ RowsWithId(deleted_activities, last.object_id) # {}

\* the places of an id in the stored documents: year, day, position
IdPlaces(id) ==
    UNION {UNION {{<<y, d, k>> :
                      k \in {j \in 1..Len(json_loads(summary_blob[y].body)[d].activity_ids) :
                                json_loads(summary_blob[y].body)[d].activity_ids[j] = id}} :
                  d \in DOMAIN json_loads(summary_blob[y].body)} :
           y \in Years}

\* C30: concurrent duplicates.  Under any interleaving of two invocations
\* that handle the same create event, each reading the document, merging and
\* writing it back without a lock, the stored document at the end lists
\* every id at most once, every day's distance_miles counts each of its
\* activities once, and the id of a create that was processed for an
\* allow-listed activity is listed exactly once.
C30_ConcurrentDuplicates ==
    (\A w \in ConcWorkers : inv[w].pc = "idle")
    => /\ \A id \in ActivityIds : Cardinality(IdPlaces(id)) <= 1
       /\ \A y \in Years :
             \A d \in DOMAIN json_loads(summary_blob[y].body) :
                json_loads(summary_blob[y].body)[d].distance_miles
                    = SumMiles(json_loads(summary_blob[y].body)[d].activity_ids)
       /\ (/\ last.fn = "aggregator" /\ last.aspect = "create"
           /\ last.status = "processed"
           /\ is_allowed_type(upstream[last.object_id].activity))
          => Cardinality(IdPlaces(last.object_id)) = 1

\* both invocations have finished; the one that was delivered while the
\* other was in progress read a document without the id, and both wrote
C30_BothReadBeforeEitherWrote ==
    /\ \A w \in ConcWorkers : inv[w].pc = "idle"
    /\ last.fn = "aggregator" /\ last.aspect = "create"
    /\ last.dup /\ last.present = "no" /\ last.wrote = 2
    /\ faults = 0

\* the timeseries derived from the stored summary document of a year
DerivedDistances(y) ==
    calculate(read_activity_summary_by_year(summary_blob, y), y).payload

\* C31: recovery from a partial export.  When the event of an invocation
\* that wrote the summary document and raised in the distances write has been
\* redelivered and handled (the activity still being upstream for a create),
\* the stored distances timeseries of every year that has a summary document
\* is the one derived from that document.
C31_RecoversFromPartialExport ==
    (/\ last.fn = "aggregator" /\ last.partial
     /\ last.status \in {"processed", "skipped"}
     /\ last.cause # "404")
    => \A y \in Years :
          summary_blob[y].exists
          => /\ distances_blob[y].exists
             /\ distances_blob[y].body = DerivedDistances(y)

\* the two acknowledgements that follow one another are those of the create
\* and of the delete of one activity by the function, in either order; the
\* create was fetched (before the upstream deletion) and no invocation is
\* left in progress
BothHandled(fn) ==
    /\ last' # last
    /\ last.fn = fn /\ last'.fn = fn
    /\ last'.object_id = last.object_id
    /\ {last.aspect, last'.aspect} = {"create", "delete"}
    /\ last.status \in {"processed", "skipped"}
    /\ last'.status \in {"processed", "skipped"}
    /\ \A r \in {last, last'} : r.aspect = "create" => r.cause # "404"
    /\ \A w \in ConcWorkers : inv'[w].pc = "idle"

\* C32: delete racing the aggregator create.  Once the create and the delete
\* of a qualifying activity have both been handled to completion by the
\* aggregator, in any order or interleaving, the create having fetched the
\* activity before it was deleted upstream, the stored summary documents do
\* not list the activity id.
C32_DeleteRacingCreate ==
    [][(/\ BothHandled("aggregator")
        /\ \A r \in {last, last'} :
              r.aspect = "create" => r.type \in {"Ride", "VirtualRide"})
       => \A y \in Years :
             \A d \in DOMAIN json_loads(summary_blob'[y].body) :
                ~Contains(json_loads(summary_blob'[y].body)[d].activity_ids,
                          last'.object_id)]_vars

\* C33: delete racing the warehouse write.  Once the create and the delete
\* of an activity have both been acknowledged by the inserter, in any
\* interleaving, the create having fetched the activity before it was
\* deleted upstream, the primary table has no row of the activity.
C33_DeleteRacingWrite ==
    [][BothHandled("bq_inserter")
       => RowsWithId(activities', last'.object_id) = {}]_vars

\* the ids the stored year document lists
StoredIds(blobs, y) ==
    UNION {{json_loads(blobs[y].body)[d].activity_ids[k] :
               k \in 1..Len(json_loads(blobs[y].body)[d].activity_ids)} :
           d \in DOMAIN json_loads(blobs[y].body)}

\* C34: no lost update.  When two create invocations for two distinct
\* qualifying activities of the same year have run in any interleaving and
\* both have returned processed, the stored year document lists both ids.
C34_NoLostUpdate ==
    [][(/\ last' # last
        /\ \A r \in {last, last'} :
              /\ r.fn = "aggregator" /\ r.aspect = "create"
              /\ r.status = "processed"
              /\ r.type \in {"Ride", "VirtualRide"}
        /\ last'.object_id # last.object_id
        /\ upstream[last'.object_id].activity.start_date_local.year
              = upstream[last.object_id].activity.start_date_local.year
        /\ \A w \in ConcWorkers : inv'[w].pc = "idle")
       => {last.object_id, last'.object_id}
             \subseteq StoredIds(summary_blob',
                           upstream[last.object_id].activity.start_date_local.year)]_vars

\* the day entries of the stored documents that list the id
DaysListing(id) ==
    UNION {{<<y, d>> : d \in {e \in DOMAIN json_loads(summary_blob[y].body) :
                                 Contains(json_loads(summary_blob[y].body)[e].activity_ids,
                                          id)}} :
           y \in Years}

\* C35: in every stored summary document reached through create and delete
\* events, each activity id is listed by at most one day entry, also when a
\* create is redelivered after the activity's local start date has changed
\* upstream.
C35_OneDayPerId ==
    \A id \in ActivityIds : Cardinality(DaysListing(id)) <= 1

\* C36: from the moment a write has merged an activity into the primary
\* table the lookup of its id finds a row, in the primary or in the archive
\* table, under every interleaving of writes with archive_and_remove and
\* also when the delete step fails after the archive insert: the copy is in
\* the archive before the primary row goes.
C36_LookupNeverLosesId ==
    [][\A id \in ActivityIds :
          select_by_id(activities, id) \o select_by_id(deleted_activities, id)
              # <<>>
          => select_by_id(activities', id) \o select_by_id(deleted_activities', id)
                # <<>>]_vars

\* the delete step has failed after the archive insert: the activity is in
\* both tables
C36_FailedBetweenArchiveAndDelete ==
    /\ last.fn = "bq_inserter" /\ last.aspect = "delete"
    /\ last.status = "raised" /\ last.cause = "delete"
    /\ RowsWithId(activities, last.object_id) # {}
    /\ RowsWithId(deleted_activities, last.object_id) # {}

\* C37: the archive table holds at most one row per activity id after any
\* sequence of archive_and_remove invocations, duplicate delete deliveries
\* and a retry after a failed delete step included.
C37_OneArchiveRowPerId ==
    \A id \in ActivityIds : Cardinality(RowsWithId(deleted_activities, id)) <= 1

\* C38: remove_delete undoes merge_create.  When merge_create has added an
\* allow-listed activity that the document did not record on its day, and
\* remove_delete is applied with the same activity next, the document is the
\* one before the merge: a day the merge created is deleted again, a day it
\* added to has its former ids and its former distance.
C38_RemoveUndoesMerge ==
    [][(/\ plast.op = "merge_create" /\ plast.outcome = "updated"
        /\ plast'.op = "remove_delete" /\ plast'.id = plast.id)
       => /\ plast'.outcome = "removed"
          /\ pdoc' = plast.before]_vars

\* C39: the year frame.  An aggregator invocation for an activity whose
\* start_date_local falls in year Y computes its document from the stored
\* summary of year Y and the activity alone, and a step that changes a
\* stored summary or timeseries document is a write of that invocation to
\* the document of year Y: the documents of every other year stay as they
\* are.
C39_YearFrame ==
    [][/\ \A y \in Years :
             (summary_blob'[y] # summary_blob[y]
              \/ distances_blob'[y] # distances_blob[y])
             => \E w \in Workers :
                   /\ inv[w].fn = "aggregator"
                   /\ inv[w].pc \in {"write_summary", "write_distances"}
                   /\ inv[w].activity.start_date_local.year = y
       /\ \A w \in Workers :
             (inv[w].fn = "aggregator" /\ inv[w].pc = "read"
              /\ inv'[w].pc = "write_summary")
             => LET Y == inv[w].activity.start_date_local.year
                    stored == read_activity_summary_by_year(summary_blob, Y)
                IN  inv'[w].summary
                       = IF inv[w].aspect = "create"
                         THEN update_summary(stored, inv[w].activity).summary
                         ELSE remove_from_summary(stored, inv[w].activity).summary]_vars

\* a create of an activity of last year has been processed and written
\* while this year's documents are stored
C39_WroteLastYearOnly ==
    /\ last.fn = "aggregator" /\ last.aspect = "create"
    /\ last.status = "processed" /\ last.wrote = 2
    /\ upstream[last.object_id].activity.start_date_local.year = clock.year - 1
    /\ summary_blob[clock.year].exists /\ distances_blob[clock.year].exists
    /\ summary_blob[clock.year - 1].exists

====
